---------------------------- MODULE Spec2Model ----------------------------
(***************************************************************************)
(* Model of pipet's agent core: the pet state store (internal/pet), the    *)
(* Brain's Ask tool-use loop with its sliding-window rate limiter          *)
(* (internal/brain), the shell Executor (internal/shell) and the message   *)
(* side of the Discord router (internal/discord).                          *)
(*                                                                         *)
(* float64 vitals are fixed-point integers: the value v is stored as       *)
(* v * Scale.  Scale is a multiple of 20 (so that 0.05, 0.1, 0.5 and 1.4   *)
(* are exact) times 2^MaxRevives (so that each Revive halves bond          *)
(* exactly).  Time is counted in whole hours.                              *)
(***************************************************************************)
EXTENDS Integers, Sequences, FiniteSets, TLC

VARIABLES
    now,        \* the clock (time.Now()), in hours
    pet,        \* the PetState record
    lastOp,     \* history: name of the last store operation
    prevAlive,  \* history: pet.IsAlive before the last store operation
    nOps,       \* history: number of store operations so far
    revives,    \* history: number of Revive calls so far
    window,     \* Brain.window, the admission timestamps
    mu,         \* Brain.mu: 0 when free, else the caller holding it
    ask,        \* per caller: the locals of its Ask call and its history
    accepted,   \* history: the time of every admitted Ask, in order
    lastBotReply,  \* Router.lastBotReply
    brainSet,   \* Router.brain # nil
    handled,    \* history: number of messages handed to the router
    sent,       \* history: the messages posted with Bot.SendMessage
    snap,       \* history: the Snapshots returned to a caller, in order
    fs,         \* the files on disk, by path
    saver,      \* the locals of the Save call in progress and its history
    loaded,     \* the result of the last Load
    exec,       \* a direct call of Executor.Run: its arguments and its result
    rw,         \* PetState.mu: the goroutine writing (0: none) and those reading
    gor,        \* per goroutine: its position in a store call and its locals
    serial,     \* history: the store after each completed mutator call
    allowSpectatorPet,  \* Bot.allowSpectatorPet
    interaction,\* history: the slash command handled last and its reply
    monitor,    \* Monitor.stats and the position of the refresh in progress
    built,      \* history: the Config brain.New was called with and its provider
    sched       \* the proactive Scheduler and the position of its check

petVars == <<pet, lastOp, prevAlive, nOps, revives>>

brainVars == <<window, mu, ask, accepted>>

routerVars == <<lastBotReply, brainSet, handled, sent>>

storeVars == <<rw, gor, serial>>

botVars == <<allowSpectatorPet, interaction>>

monVars == <<monitor>>

\* the state of the parts that are at rest while Ask and the router run
restVars == <<snap, fs, saver, loaded, exec, storeVars, botVars, monVars, built, sched>>

vars == <<now, pet, lastOp, prevAlive, nOps, revives, window, mu, ask, accepted,
          lastBotReply, brainSet, handled, sent, snap, fs, saver, loaded,
          exec, rw, gor, serial, allowSpectatorPet, interaction, monitor, built, sched>>

-----------------------------------------------------------------------------
(* Bounds *)

MaxTime == 2

MaxOps == 3

MaxRevives == 2

-----------------------------------------------------------------------------
(* Fixed-point representation of float64 *)

Scale == 20 * (2 ^ MaxRevives)

F(x) == x * Scale

\* time.Time{} (the zero time) of a store that was never touched
ZeroTime == 0 - 1

\* time.Duration saturates at MaxInt64 nanoseconds, about 292 years
MaxDurationHours == 2562047

\* time.Since(t).Hours()
HoursSince(t) == IF t = ZeroTime THEN MaxDurationHours ELSE now - t

-----------------------------------------------------------------------------
(* internal/pet/state.go *)

\* clamp without its upper test
clamp_noUpper(v) == IF v < 0 THEN 0 ELSE v

clamp(v) == IF v < 0 THEN 0 ELSE IF v > F(100) THEN F(100) ELSE v

NewPetState(name, speciesID) ==
    [Name |-> name, SpeciesID |-> speciesID,
     Hunger |-> F(20), Happiness |-> F(80), Energy |-> F(80),
     Cleanliness |-> F(80), Bond |-> F(10),
     BornAt |-> now, LastInteraction |-> now, LastFed |-> now,
     IsAlive |-> TRUE,
     CPUPercent |-> 0, MemPercent |-> 0, DiskPercent |-> 0,
     TempC |-> 0, UptimeDays |-> 0]

\* Load(path) when the file does not exist: &PetState{}
EmptyPetState ==
    [Name |-> "", SpeciesID |-> "",
     Hunger |-> 0, Happiness |-> 0, Energy |-> 0,
     Cleanliness |-> 0, Bond |-> 0,
     BornAt |-> ZeroTime, LastInteraction |-> ZeroTime, LastFed |-> ZeroTime,
     IsAlive |-> FALSE,
     CPUPercent |-> 0, MemPercent |-> 0, DiskPercent |-> 0,
     TempC |-> 0, UptimeDays |-> 0]

\* the exported fields of PetState
StoredFields == DOMAIN EmptyPetState

IsOnboarded(s) == s.Name # "" /\ s.SpeciesID # ""

\* the cascade with the hungry test moved before the sleepy test
DetermineMood_hungryFirst(s) ==
    IF ~s.IsAlive THEN "dead"
    ELSE IF s.MemPercent > 90 THEN "sick"
    ELSE IF s.TempC > 70 THEN "anxious"
    ELSE IF s.Hunger > F(70) THEN "hungry"
    ELSE IF s.Energy < F(20) THEN "sleepy"
    ELSE IF s.Happiness < F(30) THEN "bored"
    ELSE IF s.Happiness > F(70) /\ s.Hunger < F(40) /\ s.Energy > F(40) THEN "happy"
    ELSE "content"

\* mood.go: DetermineMood
DetermineMood(s) ==
    IF ~s.IsAlive THEN "dead"
    ELSE IF s.MemPercent > 90 THEN "sick"
    ELSE IF s.TempC > 70 THEN "anxious"
    ELSE IF s.Energy < F(20) THEN "sleepy"
    ELSE IF s.Hunger > F(70) THEN "hungry"
    ELSE IF s.Happiness < F(30) THEN "bored"
    ELSE IF s.Happiness > F(70) /\ s.Hunger < F(40) /\ s.Energy > F(40) THEN "happy"
    ELSE "content"

\* a bump that always gains 2
bumpBond_flat(s) == [s EXCEPT !.Bond = clamp(s.Bond + F(2))]

bumpBond(s) ==
    LET gain0 == F(2)
        gain1 == IF s.Bond > F(50) THEN F(1) ELSE gain0
        gain  == IF s.Bond > F(80) THEN Scale \div 2 ELSE gain1
    IN  [s EXCEPT !.Bond = clamp(s.Bond + gain)]

\* Feed without the write of LastFed
FeedOf_noLastFed(s) ==
    bumpBond([s EXCEPT !.Hunger = clamp(s.Hunger - F(30)),
                       !.Happiness = clamp(s.Happiness + F(5)),
                       !.LastInteraction = now])

FeedOf(s) ==
    bumpBond([s EXCEPT !.Hunger = clamp(s.Hunger - F(30)),
                       !.Happiness = clamp(s.Happiness + F(5)),
                       !.LastFed = now,
                       !.LastInteraction = now])

\* Play that does nothing to a pet that is not alive
PlayOf_onlyAlive(s) ==
    IF ~s.IsAlive THEN s
    ELSE bumpBond([s EXCEPT !.Happiness = clamp(s.Happiness + F(20)),
                            !.Energy = clamp(s.Energy - F(10)),
                            !.Hunger = clamp(s.Hunger + F(5)),
                            !.LastInteraction = now])

PlayOf(s) ==
    bumpBond([s EXCEPT !.Happiness = clamp(s.Happiness + F(20)),
                       !.Energy = clamp(s.Energy - F(10)),
                       !.Hunger = clamp(s.Hunger + F(5)),
                       !.LastInteraction = now])

PetOf(s) ==
    bumpBond([s EXCEPT !.Happiness = clamp(s.Happiness + F(10)),
                       !.LastInteraction = now])

TouchInteractionOf(s) ==
    bumpBond([s EXCEPT !.LastInteraction = now])

\* the death test without the energy term
DeathCondition_noEnergy(s) ==
    s.Hunger >= F(95) /\ s.MemPercent >= 95

\* the death test of ApplySystemStats, on the fields after the mapping
DeathCondition(s) ==
    s.Hunger >= F(95) /\ s.MemPercent >= 95 /\ s.Energy <= F(5)

\* ApplySystemStats that leaves the energy of the store alone
ApplySystemStatsOf_keepEnergy(s, cpu, mem, disk, tempC, uptime10) ==
    LET hoursSince == HoursSince(s.LastInteraction)
        mapped == [s EXCEPT !.CPUPercent = cpu,
                            !.MemPercent = mem,
                            !.DiskPercent = disk,
                            !.TempC = tempC,
                            !.UptimeDays = uptime10,
                            !.Hunger = clamp(F(cpu)),
                            !.Cleanliness = clamp(F(100) - F(disk)),
                            !.Happiness = clamp(s.Happiness - ((hoursSince * Scale) \div 10)),
                            !.Bond = clamp(s.Bond - ((hoursSince * Scale) \div 20))]
    IN  IF DeathCondition(mapped) THEN [mapped EXCEPT !.IsAlive = FALSE] ELSE mapped

\* cpu, mem, disk, tempC are whole numbers; uptime10 is uptimeDays in tenths
\* of a day, so uptimeDays*14 is (uptime10 * 14 * Scale) \div 10, exactly.
ApplySystemStatsOf(s, cpu, mem, disk, tempC, uptime10) ==
    LET hoursSince == HoursSince(s.LastInteraction)
        mapped == [s EXCEPT !.CPUPercent = cpu,
                            !.MemPercent = mem,
                            !.DiskPercent = disk,
                            !.TempC = tempC,
                            !.UptimeDays = uptime10,
                            !.Hunger = clamp(F(cpu)),
                            !.Cleanliness = clamp(F(100) - F(disk)),
                            !.Energy = clamp(F(100) - ((uptime10 * 14 * Scale) \div 10)),
                            !.Happiness = clamp(s.Happiness - ((hoursSince * Scale) \div 10)),
                            !.Bond = clamp(s.Bond - ((hoursSince * Scale) \div 20))]
    IN  IF DeathCondition(mapped) THEN [mapped EXCEPT !.IsAlive = FALSE] ELSE mapped

KillOf(s) == [s EXCEPT !.IsAlive = FALSE]

\* Revive that keeps the whole bond
ReviveOf_fullBond(s) ==
    [s EXCEPT !.IsAlive = TRUE,
              !.Hunger = F(20),
              !.Happiness = F(50),
              !.Energy = F(50),
              !.Cleanliness = F(50),
              !.LastInteraction = now]

ReviveOf(s) ==
    [s EXCEPT !.IsAlive = TRUE,
              !.Hunger = F(20),
              !.Happiness = F(50),
              !.Energy = F(50),
              !.Cleanliness = F(50),
              !.Bond = clamp(s.Bond \div 2),
              !.LastInteraction = now]

SetIdentityOf(s, name, speciesID) ==
    [s EXCEPT !.Name = name, !.SpeciesID = speciesID,
              !.BornAt = now, !.LastInteraction = now, !.LastFed = now,
              !.IsAlive = TRUE,
              !.Hunger = F(20), !.Happiness = F(80), !.Energy = F(80),
              !.Cleanliness = F(80), !.Bond = F(10)]

-----------------------------------------------------------------------------
(* internal/shell: strings are sequences of one-character strings *)

UpperLetters == <<"A", "B", "C", "D", "E", "F", "G", "H", "I", "J", "K", "L", "M", "N", "O", "P", "Q", "R", "S", "T", "U", "V", "W", "X", "Y", "Z">>

LowerLetters == <<"a", "b", "c", "d", "e", "f", "g", "h", "i", "j", "k", "l", "m", "n", "o", "p", "q", "r", "s", "t", "u", "v", "w", "x", "y", "z">>

\* strings.ToLower, one character
LowerChar(ch) ==
    IF \E k \in 1..Len(UpperLetters) : UpperLetters[k] = ch
    THEN LowerLetters[CHOOSE k \in 1..Len(UpperLetters) : UpperLetters[k] = ch]
    ELSE ch

\* strings.ToLower
ToLower(str) == [k \in 1..Len(str) |-> LowerChar(str[k])]

\* strings.Contains
Contains(str, substr) ==
    \E k \in 0..(Len(str) - Len(substr)) : SubSeq(str, k + 1, k + Len(substr)) = substr

blockedPatterns ==
    << <<"r", "m", " ", "-", "r", "f", " ", "/">>,
       <<"r", "m", " ", "-", "r", "f", " ", "/", "*">>,
       <<"m", "k", "f", "s">>,
       <<"d", "d", " ", "i", "f", "=">>,
       <<":", "(", ")", "{">>,
       <<"c", "h", "m", "o", "d", " ", "-", "R", " ", "7", "7", "7">>,
       <<"w", "g", "e", "t">>,
       <<"c", "u", "r", "l">>,
       <<">", " ", "/", "d", "e", "v", "/", "s", "d">>,
       <<"s", "h", "u", "t", "d", "o", "w", "n">>,
       <<"r", "e", "b", "o", "o", "t">>,
       <<"h", "a", "l", "t">>,
       <<"i", "n", "i", "t", " ", "0">>,
       <<"i", "n", "i", "t", " ", "6">>,
       <<"p", "a", "s", "s", "w", "d">>,
       <<"a", "d", "d", "u", "s", "e", "r">>,
       <<"u", "s", "e", "r", "a", "d", "d">>,
       <<"u", "s", "e", "r", "d", "e", "l">>,
       <<"v", "i", "s", "u", "d", "o">>,
       <<"i", "p", "t", "a", "b", "l", "e", "s">>,
       <<"n", "f", "t", " ">>,
       <<"s", "y", "s", "t", "e", "m", "c", "t", "l", " ", "d", "i", "s", "a", "b", "l", "e">>,
       <<"s", "y", "s", "t", "e", "m", "c", "t", "l", " ", "m", "a", "s", "k">> >>

\* strings.ToLower(pattern), for every pattern of the list
lowerPatterns == [k \in 1..Len(blockedPatterns) |-> ToLower(blockedPatterns[k])]

\* the loop of checkBlocked from pattern k on; <<>> is the empty string
RECURSIVE checkBlockedFrom(_, _)
checkBlockedFrom(lower, k) ==
    IF k > Len(blockedPatterns) THEN <<>>
    ELSE IF Contains(lower, lowerPatterns[k]) THEN blockedPatterns[k]
    ELSE checkBlockedFrom(lower, k + 1)

\* checkBlocked comparing the command as typed
checkBlocked_caseSensitive(command) == checkBlockedFrom(command, 1)

checkBlocked(command) ==
    CHOOSE pattern \in {checkBlockedFrom(lower, 1) : lower \in {ToLower(command)}} : TRUE

\* Executor.maxOutput, in bytes
MaxOutput == 3

TruncationMarker == <<"\n... [output truncated]">>

NoError == [kind |-> "nil", detail |-> <<>>]

\* what the subprocess of one Run does: the bytes (characters) it writes, its exit
\* status, and whether it is still running when the deadline expires
ProcOutcomes ==
    { [out |-> <<"a", "b">>, exit |-> 0, timedOut |-> FALSE, started |-> TRUE],
      [out |-> <<"a", "b", "c", "d">>, exit |-> 1, timedOut |-> FALSE, started |-> TRUE],
      [out |-> <<"a">>, exit |-> 0 - 1, timedOut |-> TRUE, started |-> TRUE] }

\* the subprocess is killed because the caller's context was cancelled
KilledOutcomes ==
    { [out |-> <<"a">>, exit |-> 0 - 1, timedOut |-> FALSE, started |-> TRUE] }

\* cmd.Start fails because the context is already done: nothing is created
Unstarted == [out |-> <<>>, exit |-> 0 - 1, timedOut |-> FALSE, started |-> FALSE]

\* the cap applied from maxOutput bytes on
capOutput_atLimit(out) ==
    IF Len(out) >= MaxOutput
    THEN SubSeq(out, 1, MaxOutput) \o TruncationMarker
    ELSE out

\* Run, lines 63-66
capOutput(out) ==
    IF Len(out) > MaxOutput
    THEN SubSeq(out, 1, MaxOutput) \o TruncationMarker
    ELSE out

\* the exit error tested before the deadline
runError_exitFirst(proc) ==
    IF proc.exit # 0 THEN [kind |-> "command failed", detail |-> <<>>]
    ELSE IF proc.timedOut THEN [kind |-> "command timed out", detail |-> <<>>]
    ELSE NoError

\* Run, lines 68-76
runError(proc) ==
    IF proc.timedOut THEN [kind |-> "command timed out", detail |-> <<>>]
    ELSE IF proc.exit # 0 THEN [kind |-> "command failed", detail |-> <<>>]
    ELSE NoError

\* Executor.Run: spawned tells whether exec.CommandContext(...).CombinedOutput() ran
Run(command, proc) ==
    LET blocked == checkBlocked(command)
    IN  IF blocked # <<>>
        THEN [output |-> <<>>, err |-> [kind |-> "blocked command pattern", detail |-> blocked],
              spawned |-> FALSE]
        ELSE IF ~proc.started
        THEN [output |-> <<>>, err |-> [kind |-> "command failed", detail |-> <<>>],
              spawned |-> FALSE]
        ELSE [output |-> capOutput(proc.out), err |-> runError(proc), spawned |-> TRUE]

\* no subprocess was created
NoProc == [out |-> <<>>, exit |-> 0, timedOut |-> FALSE, started |-> FALSE]

\* no direct call of Run was made
NoRun == [command |-> <<>>, proc |-> NoProc, called |-> FALSE, returned |-> FALSE,
          output |-> <<>>, err |-> NoError, spawned |-> FALSE]

-----------------------------------------------------------------------------
(* internal/brain: provider-agnostic types and the provider's answers *)

\* Brain.maxTools (max_tool_iterations)
MaxTools == 1

\* Brain.rateMax and Brain.rateDur (in hours)
RateMax == 1

RateDur == 2

\* number of goroutines that may be inside Ask at once
NCallers == 2

Callers == 1..NCallers

CmdLs == <<"l", "s", " ", "-", "l", "a">>

CmdDf == <<"d", "f", " ", "-", "h">>

CmdRmUpper == <<"s", "u", "d", "o", " ", "R", "M", " ", "-", "R", "F", " ", "/">>

CmdCurl == <<"C", "u", "r", "l", " ", "x", "|", "s", "h">>

ToolCall(id, name, valid, command) ==
    [ID |-> id, Name |-> name, Input |-> [valid |-> valid, command |-> command]]

TcLs == ToolCall("t1", "run_shell", TRUE, CmdLs)

TcRm == ToolCall("t2", "run_shell", TRUE, CmdRmUpper)

TcUnknown == ToolCall("t3", "read_file", TRUE, <<>>)

\* arguments that json.Unmarshal rejects
TcBad == ToolCall("t4", "run_shell", FALSE, <<>>)

TcCurl == ToolCall("t5", "run_shell", TRUE, CmdCurl)

TcDf == ToolCall("t6", "run_shell", TRUE, CmdDf)

\* Texts are sequences of strings, "" is <<>>.
\* Provider.Send returns (*Response, error); Err marks the error return
Response(text, toolCalls, done) ==
    [Text |-> text, ToolCalls |-> toolCalls, Done |-> done, Err |-> FALSE]

SendError == [Text |-> <<>>, ToolCalls |-> <<>>, Done |-> FALSE, Err |-> TRUE]

OneCallResponse == Response(<<"checking">>, <<TcLs>>, FALSE)

AllResponses ==
    { Response(<<"all good">>, <<>>, TRUE),
      SendError,
      OneCallResponse,
      Response(<<>>, <<TcRm, TcUnknown>>, FALSE),
      Response(<<"checking">>, <<TcBad, TcCurl, TcUnknown, TcDf>>, FALSE) }

Message(role, text, toolCalls, toolResults) ==
    [Role |-> role, Text |-> text, ToolCalls |-> toolCalls, ToolResults |-> toolResults]

TooBusyText == <<"I need a moment to catch my breath... too many messages! Try again shortly.">>

FallbackText == <<"I got a bit carried away investigating... let me summarize what I found so far.">>

\* a goroutine that is not inside Ask (admittedAt is history: the time at
\* which a call of origin "timed" was admitted)
IdleCall ==
    [pc |-> "idle", origin |-> "none", userMessage |-> <<>>, systemPrompt |-> <<>>,
     i |-> 0, history |-> <<>>, results |-> <<>>,
     ret |-> [text |-> <<>>, err |-> "nil"],
     sends |-> 0, snaps |-> 0, runs |-> 0, spawns |-> 0, execLog |-> <<>>,
     denied |-> FALSE, sendFailed |-> FALSE,
     ctx |-> "live", child |-> "none", received |-> <<>>, admittedAt |-> 0 - 1]

\* entry of Ask(ctx, userMessage); origin is history: who made the call
newCall(origin, userMessage) ==
    [IdleCall EXCEPT !.pc = "rateLock", !.origin = origin, !.userMessage = userMessage]

-----------------------------------------------------------------------------
(* internal/brain: Brain.rateAllow, Brain.executeTool, Brain.Ask *)

\* rateAllow without the eviction of expired entries
rateAllow_noEvict(w, t) ==
    IF Len(w) >= RateMax
    THEN [window |-> w, ok |-> FALSE]
    ELSE [window |-> Append(w, t), ok |-> TRUE]

\* rateAllow admitting one call too many
rateAllow_offByOne(w, t) ==
    LET cutoff == t - RateDur
        valid == SelectSeq(w, LAMBDA x : x > cutoff)
    IN  IF Len(valid) > RateMax
        THEN [window |-> valid, ok |-> FALSE]
        ELSE [window |-> Append(valid, t), ok |-> TRUE]

\* the body of rateAllow at time t: the new window and the verdict
rateAllow(w, t) ==
    LET cutoff == t - RateDur
        valid == SelectSeq(w, LAMBDA x : x > cutoff)
    IN  IF Len(valid) >= RateMax
        THEN [window |-> valid, ok |-> FALSE]
        ELSE [window |-> Append(valid, t), ok |-> TRUE]

\* Ask going on after a denial
afterRateAllow_ignored(a, ok) ==
    IF ~ok
    THEN [a EXCEPT !.pc = "prompt", !.denied = TRUE]
    ELSE [a EXCEPT !.pc = "prompt",
                   !.admittedAt = IF a.origin = "timed" THEN now ELSE @]

\* Ask, lines 153-155
afterRateAllow(a, ok) ==
    IF ~ok
    THEN [a EXCEPT !.pc = "returned",
                   !.ret = [text |-> TooBusyText, err |-> "nil"],
                   !.denied = TRUE]
    ELSE [a EXCEPT !.pc = "prompt",
                   !.admittedAt = IF a.origin = "timed" THEN now ELSE @]

\* Snapshot, lines 87-104: the fields copied under RLock
copyFields(s) == s

\* Snapshot, lines 107-108: the values derived from the copy.  AgeDays is
\* kept in 24ths of a day, so that Hours()/24 is exact.
derive(c) ==
    [f \in DOMAIN c \cup {"Mood", "AgeDays"} |->
        IF f = "Mood" THEN DetermineMood(c)
        ELSE IF f = "AgeDays" THEN HoursSince(c.BornAt)
        ELSE c[f]]

Snapshot(s) == derive(copyFields(s))

-----------------------------------------------------------------------------
(* internal/pet/state.go: Save and Load.  A file is the sequence of the    *)
(* members of its JSON object, closed once the final brace is written.     *)

\* strconv's shortest decimal of a float64 held in units of 1/unit
FormatFloat(n, unit) == [int |-> n \div unit, frac |-> n % unit, den |-> unit]

ParseFloat(j, unit) == j.int * unit + (j.frac * unit) \div j.den

\* time.Time.MarshalJSON: RFC 3339, the zero time being year 1
FormatTime(t) ==
    IF t = ZeroTime THEN [year |-> 1, day |-> 0, hour |-> 0]
    ELSE [year |-> 2026, day |-> t \div 24, hour |-> t % 24]

ParseTime(j) == IF j.year = 1 THEN ZeroTime ELSE j.day * 24 + j.hour

FormatBool(b) == IF b THEN "true" ELSE "false"

ParseBool(j) == j = "true"

\* the record written when last_fed is not marshalled
MarshalIndent_noLastFed(s) ==
    << <<"name", s.Name>>, <<"species_id", s.SpeciesID>>,
       <<"hunger", FormatFloat(s.Hunger, Scale)>>,
       <<"happiness", FormatFloat(s.Happiness, Scale)>>,
       <<"energy", FormatFloat(s.Energy, Scale)>>,
       <<"cleanliness", FormatFloat(s.Cleanliness, Scale)>>,
       <<"bond", FormatFloat(s.Bond, Scale)>>,
       <<"born_at", FormatTime(s.BornAt)>>,
       <<"last_interaction", FormatTime(s.LastInteraction)>>,
       <<"is_alive", FormatBool(s.IsAlive)>>,
       <<"cpu_percent", FormatFloat(s.CPUPercent, 1)>>,
       <<"mem_percent", FormatFloat(s.MemPercent, 1)>>,
       <<"disk_percent", FormatFloat(s.DiskPercent, 1)>>,
       <<"temp_c", FormatFloat(s.TempC, 1)>>,
       <<"uptime_days", FormatFloat(s.UptimeDays, 10)>> >>

\* json.MarshalIndent(s): one member per tagged field, in field order
MarshalIndent(s) ==
    << <<"name", s.Name>>, <<"species_id", s.SpeciesID>>,
       <<"hunger", FormatFloat(s.Hunger, Scale)>>,
       <<"happiness", FormatFloat(s.Happiness, Scale)>>,
       <<"energy", FormatFloat(s.Energy, Scale)>>,
       <<"cleanliness", FormatFloat(s.Cleanliness, Scale)>>,
       <<"bond", FormatFloat(s.Bond, Scale)>>,
       <<"born_at", FormatTime(s.BornAt)>>,
       <<"last_interaction", FormatTime(s.LastInteraction)>>,
       <<"last_fed", FormatTime(s.LastFed)>>,
       <<"is_alive", FormatBool(s.IsAlive)>>,
       <<"cpu_percent", FormatFloat(s.CPUPercent, 1)>>,
       <<"mem_percent", FormatFloat(s.MemPercent, 1)>>,
       <<"disk_percent", FormatFloat(s.DiskPercent, 1)>>,
       <<"temp_c", FormatFloat(s.TempC, 1)>>,
       <<"uptime_days", FormatFloat(s.UptimeDays, 10)>> >>

Has(members, key) == \E k \in 1..Len(members) : members[k][1] = key

Get(members, key) == members[CHOOSE k \in 1..Len(members) : members[k][1] = key][2]

\* json.Unmarshal(data, &state) into a zero PetState: a field whose key is
\* missing keeps its zero value
Unmarshal(members) ==
    LET str(key) == IF Has(members, key) THEN Get(members, key) ELSE ""
        num(key, unit) == IF Has(members, key) THEN ParseFloat(Get(members, key), unit) ELSE 0
        tim(key) == IF Has(members, key) THEN ParseTime(Get(members, key)) ELSE ZeroTime
    IN  [Name |-> str("name"), SpeciesID |-> str("species_id"),
         Hunger |-> num("hunger", Scale), Happiness |-> num("happiness", Scale),
         Energy |-> num("energy", Scale), Cleanliness |-> num("cleanliness", Scale),
         Bond |-> num("bond", Scale),
         BornAt |-> tim("born_at"), LastInteraction |-> tim("last_interaction"),
         LastFed |-> tim("last_fed"),
         IsAlive |-> Has(members, "is_alive") /\ ParseBool(Get(members, "is_alive")),
         CPUPercent |-> num("cpu_percent", 1), MemPercent |-> num("mem_percent", 1),
         DiskPercent |-> num("disk_percent", 1), TempC |-> num("temp_c", 1),
         UptimeDays |-> num("uptime_days", 10)]

\* the path the store is saved at
Path == <<"state.json">>

\* Save writing straight to path
tmpPath_inPlace(path) == path

\* Save, line 246: tmp := path + ".tmp"
tmpPath(path) == path \o <<".tmp">>

Paths == {Path, tmpPath(Path)}

Absent == [exists |-> FALSE, members |-> <<>>, closed |-> FALSE]

File(members, closed) == [exists |-> TRUE, members |-> members, closed |-> closed]

\* Load handing back the store it has built so far next to the parse error
Load_halfBuilt(fsys, path) ==
    IF ~fsys[path].exists
    THEN [state |-> EmptyPetState, isNil |-> FALSE, err |-> "nil"]
    ELSE IF ~fsys[path].closed
    THEN [state |-> Unmarshal(fsys[path].members), isNil |-> FALSE, err |-> "unmarshal state"]
    ELSE [state |-> Unmarshal(fsys[path].members), isNil |-> FALSE, err |-> "nil"]

\* Load(path): the store and the error it returns
Load(fsys, path) ==
    IF ~fsys[path].exists
    THEN [state |-> EmptyPetState, isNil |-> FALSE, err |-> "nil"]
    ELSE IF ~fsys[path].closed
    THEN [state |-> EmptyPetState, isNil |-> TRUE, err |-> "unmarshal state"]
    ELSE [state |-> Unmarshal(fsys[path].members), isNil |-> FALSE, err |-> "nil"]

\* no Save in progress; history: the snapshots at the marshalling of the
\* Saves that completed
IdleSaver ==
    [pc |-> "idle", data |-> <<>>, before |-> Absent, taken |-> <<>>, saved |-> <<>>,
     err |-> "none"]

NotLoaded == [state |-> EmptyPetState, isNil |-> TRUE, err |-> "none", pre |-> <<>>]

\* the loop test allowing one more round
loopCond_oneMore(i) == i <= MaxTools + 1

\* the test of the tool-use loop
loopCond(i) == i <= MaxTools

\* the head of the for loop: another Send, or the fallback after the loop
loopHead(a) ==
    IF loopCond(a.i)
    THEN [a EXCEPT !.pc = "send"]
    ELSE [a EXCEPT !.pc = "returned",
                   !.ret = [text |-> FallbackText, err |-> "nil"]]

\* fmt's %.0f and %.1f: n/d rounded to the nearest integer, ties to even
RoundDiv(n, d) ==
    LET q == n \div d
        r == n % d
    IN  IF 2 * r > d \/ (2 * r = d /\ q % 2 = 1) THEN q + 1 ELSE q

\* the prompt with the host metrics of the snapshot in place of the monitor's
renderPrompt_snapshotMetrics(x, stats) ==
    [Name |-> x.Name, SpeciesID |-> x.SpeciesID, Mood |-> x.Mood,
     Hunger |-> RoundDiv(x.Hunger, Scale),
     Happiness |-> RoundDiv(x.Happiness, Scale),
     Energy |-> RoundDiv(x.Energy, Scale),
     Cleanliness |-> RoundDiv(x.Cleanliness, Scale),
     Bond |-> RoundDiv(x.Bond, Scale),
     AgeDays |-> RoundDiv(x.AgeDays * 10, 24),
     IsAlive |-> x.IsAlive,
     CPUPercent |-> x.CPUPercent, MemPercent |-> x.MemPercent,
     DiskPercent |-> x.DiskPercent, TempC |-> x.TempC,
     UptimeDays |-> x.UptimeDays]

\* buildSystemPrompt, lines 236-271: the values of the snapshot as the
\* prompt prints them (vitals with %.0f, the age in days with %.1f, i.e. in
\* tenths of a day); the host section is printed from monitor.Stats() with
\* %.1f (whole numbers, and the uptime in tenths of a day)
renderPrompt(x, stats) ==
    [Name |-> x.Name, SpeciesID |-> x.SpeciesID, Mood |-> x.Mood,
     Hunger |-> RoundDiv(x.Hunger, Scale),
     Happiness |-> RoundDiv(x.Happiness, Scale),
     Energy |-> RoundDiv(x.Energy, Scale),
     Cleanliness |-> RoundDiv(x.Cleanliness, Scale),
     Bond |-> RoundDiv(x.Bond, Scale),
     AgeDays |-> RoundDiv(x.AgeDays * 10, 24),
     IsAlive |-> x.IsAlive,
     CPUPercent |-> stats[1], MemPercent |-> stats[2],
     DiskPercent |-> stats[3], TempC |-> stats[4],
     UptimeDays |-> stats[5]]

\* Ask, lines 157-161
\* Ask keeping its history in the Brain, where the other calls append too
buildSystemPrompt_sharedHistory(a, s, stats) ==
    loopHead([a EXCEPT !.systemPrompt = <<renderPrompt(Snapshot(s), stats)>>,
                       !.snaps = @ + 1,
                       !.history = ask[1].history \o
                                   <<Message("user", a.userMessage, <<>>, <<>>)>>,
                       !.i = 0])

buildSystemPrompt(a, s, stats) ==
    loopHead([a EXCEPT !.systemPrompt = <<renderPrompt(Snapshot(s), stats)>>,
                       !.snaps = @ + 1,
                       !.history = <<Message("user", a.userMessage, <<>>, <<>>)>>,
                       !.i = 0])

\* a Send that answers although the context was cancelled
sendOutcomes_ignoreCtx(a, responses) == responses

\* provider.Send(ctx, ...): the request is made with the caller's context,
\* so once the context is cancelled it ends with the context's error
sendOutcomes(a, responses) ==
    IF a.ctx = "cancelled" THEN {SendError} ELSE responses

\* Ask testing its budget before it runs the tools of a response
afterSend_budgetFirst(a, r) ==
    LET b == [a EXCEPT !.sends = @ + 1]
    IN  IF r.Err
        THEN [b EXCEPT !.pc = "returned",
                       !.ret = [text |-> <<>>, err |-> "AI API error"],
                       !.sendFailed = TRUE]
        ELSE IF r.Done
        THEN [b EXCEPT !.pc = "returned",
                       !.ret = [text |-> r.Text, err |-> "nil"],
                       !.received = Append(@, r)]
        ELSE IF ~loopCond(a.i + 1)
        THEN [b EXCEPT !.pc = "returned",
                       !.ret = [text |-> FallbackText, err |-> "nil"],
                       !.received = Append(@, r)]
        ELSE [b EXCEPT !.history = Append(@, Message("assistant", r.Text, r.ToolCalls, <<>>)),
                       !.results = <<>>,
                       !.pc = "tools",
                       !.received = Append(@, r)]

\* Ask retrying the Send after a provider error
afterSend_retry(a, r) ==
    LET b == [a EXCEPT !.sends = @ + 1]
    IN  IF r.Err
        THEN [b EXCEPT !.sendFailed = TRUE]
        ELSE IF r.Done
        THEN [b EXCEPT !.pc = "returned",
                       !.ret = [text |-> r.Text, err |-> "nil"],
                       !.received = Append(@, r)]
        ELSE [b EXCEPT !.history = Append(@, Message("assistant", r.Text, r.ToolCalls, <<>>)),
                       !.results = <<>>,
                       !.pc = "tools",
                       !.received = Append(@, r)]

\* Ask, lines 165-181: what follows the answer r of provider.Send
afterSend(a, r) ==
    LET b == [a EXCEPT !.sends = @ + 1]
    IN  IF r.Err
        THEN [b EXCEPT !.pc = "returned",
                       !.ret = [text |-> <<>>, err |-> "AI API error"],
                       !.sendFailed = TRUE]
        ELSE IF r.Done
        THEN [b EXCEPT !.pc = "returned",
                       !.ret = [text |-> r.Text, err |-> "nil"],
                       !.received = Append(@, r)]
        ELSE [b EXCEPT !.history = Append(@, Message("assistant", r.Text, r.ToolCalls, <<>>)),
                       !.results = <<>>,
                       !.pc = "tools",
                       !.received = Append(@, r)]

\* executeTool dropping the error of Run
executeTool_errDropped(name, input, proc) ==
    IF name = "run_shell"
    THEN IF ~input.valid
         THEN [content |-> [format |-> "invalid input: %v",
                            err |-> [kind |-> "json", detail |-> <<>>], output |-> <<>>],
               isError |-> TRUE, ran |-> FALSE, spawned |-> FALSE]
         ELSE LET r == Run(input.command, proc)
              IN  [content |-> [format |-> "%s", err |-> NoError, output |-> r.output],
                   isError |-> FALSE, ran |-> TRUE, spawned |-> r.spawned]
    ELSE [content |-> [format |-> "unknown tool: %s",
                       err |-> [kind |-> "unknown tool", detail |-> <<name>>], output |-> <<>>],
          isError |-> TRUE, ran |-> FALSE, spawned |-> FALSE]

\* executeTool: the content string is kept as its format and its arguments
executeTool(name, input, proc) ==
    IF name = "run_shell"
    THEN IF ~input.valid
         THEN [content |-> [format |-> "invalid input: %v",
                            err |-> [kind |-> "json", detail |-> <<>>], output |-> <<>>],
               isError |-> TRUE, ran |-> FALSE, spawned |-> FALSE]
         ELSE LET r == Run(input.command, proc)
              IN  IF r.err # NoError
                  THEN [content |-> [format |-> "Error: %v\nOutput: %s",
                                     err |-> r.err, output |-> r.output],
                        isError |-> TRUE, ran |-> TRUE, spawned |-> r.spawned]
                  ELSE [content |-> [format |-> "%s", err |-> NoError, output |-> r.output],
                        isError |-> FALSE, ran |-> TRUE, spawned |-> r.spawned]
    ELSE [content |-> [format |-> "unknown tool: %s",
                       err |-> [kind |-> "unknown tool", detail |-> <<name>>], output |-> <<>>],
          isError |-> TRUE, ran |-> FALSE, spawned |-> FALSE]

\* results collected in reverse
collect_prepend(results, tr) == <<tr>> \o results

\* results = append(results, ToolResult{...})
collect(results, tr) == Append(results, tr)

\* the tool calls of the response being worked on (resp.ToolCalls)
pendingCalls(a) == a.history[Len(a.history)].ToolCalls

\* Ask, lines 185-192, one turn of the inner loop
execStep(a, proc) ==
    LET tc == pendingCalls(a)[Len(a.results) + 1]
        x == executeTool(tc.Name, tc.Input, proc)
    IN  [a EXCEPT !.results = collect(@, [ID |-> tc.ID, Content |-> x.content,
                                          IsError |-> x.isError]),
                  !.runs = @ + (IF x.ran THEN 1 ELSE 0),
                  !.spawns = @ + (IF x.spawned THEN 1 ELSE 0),
                  !.execLog = Append(@, [call |-> tc, spawned |-> x.spawned,
                                         proc |-> IF x.spawned THEN proc ELSE NoProc])]

\* Ask, lines 194-198 and the loop's i++
\* the results put into the assistant turn that asked for them
appendResults_merged(a) ==
    loopHead([a EXCEPT !.history = [@ EXCEPT ![Len(@)].ToolResults = a.results],
                       !.results = <<>>,
                       !.i = @ + 1])

appendResults(a) ==
    loopHead([a EXCEPT !.history = Append(@, Message("user", <<>>, <<>>, a.results)),
                       !.results = <<>>,
                       !.i = @ + 1])

-----------------------------------------------------------------------------
(* One Ask call of caller c, step by step.  The steps are the points where *)
(* the call touches shared state or blocks: the limiter's critical section,*)
(* the snapshot, each provider round-trip and each tool execution.         *)

SetCall(c, a) ==
    /\ ask' = [ask EXCEPT ![c] = a]
    /\ UNCHANGED <<now, petVars, routerVars, restVars>>

\* each caller of the public API asks its own question
userMessageOf(c) == <<"hi from ", ToString(c)>>

\* a caller of the public API calls Ask
StartAsk(c) ==
    /\ ask[c].pc \in {"idle", "returned"}
    /\ SetCall(c, newCall("direct", userMessageOf(c)))
    /\ UNCHANGED <<window, mu, accepted>>

\* b.mu.Lock()
RateLock(c) ==
    /\ ask[c].pc = "rateLock"
    /\ mu = 0
    /\ mu' = c
    /\ SetCall(c, [ask[c] EXCEPT !.pc = "rateCS"])
    /\ UNCHANGED <<window, accepted>>

\* the body of rateAllow, the deferred Unlock and the test in Ask
RateAllow(c) ==
    /\ ask[c].pc = "rateCS"
    /\ mu = c
    /\ LET r == rateAllow(window, now)
       IN  /\ window' = r.window
           /\ accepted' = IF r.ok THEN Append(accepted, now) ELSE accepted
           /\ SetCall(c, afterRateAllow(ask[c], r.ok))
    /\ mu' = 0

BuildSystemPrompt(c) ==
    /\ ask[c].pc = "prompt"
    /\ SetCall(c, buildSystemPrompt(ask[c], pet, monitor.stats))
    /\ UNCHANGED <<window, mu, accepted>>

\* one provider round-trip; the provider may answer anything in responses
Send(c, responses) ==
    /\ ask[c].pc = "send"
    /\ \E r \in sendOutcomes(ask[c], responses) : SetCall(c, afterSend(ask[c], r))
    /\ UNCHANGED <<window, mu, accepted>>

\* does executing tc create a subprocess under the context of call a?
startsProcess(a, tc) ==
    /\ tc.Name = "run_shell"
    /\ tc.Input.valid
    /\ checkBlocked(tc.Input.command) = <<>>
    /\ a.ctx = "live"

ExecuteTool(c) ==
    /\ ask[c].pc = "tools"
    /\ Len(ask[c].results) < Len(pendingCalls(ask[c]))
    /\ \E proc \in (IF startsProcess(ask[c], pendingCalls(ask[c])[Len(ask[c].results) + 1])
                    THEN ProcOutcomes ELSE {Unstarted}) :
          SetCall(c, execStep(ask[c], proc))
    /\ UNCHANGED <<window, mu, accepted>>

\* exec.CommandContext(ctx, ...).CombinedOutput() returns once the
\* subprocess has exited
finishTool(a, proc) == [execStep(a, proc) EXCEPT !.pc = "tools", !.child = "exited"]

\* ExecuteTool in two steps, for callers that may cancel in between: the
\* tool call is dispatched and, if it creates a subprocess, Ask waits for it
SpawnTool(c) ==
    /\ ask[c].pc = "tools"
    /\ Len(ask[c].results) < Len(pendingCalls(ask[c]))
    /\ IF startsProcess(ask[c], pendingCalls(ask[c])[Len(ask[c].results) + 1])
       THEN SetCall(c, [ask[c] EXCEPT !.pc = "running", !.child = "running"])
       ELSE SetCall(c, execStep(ask[c], Unstarted))
    /\ UNCHANGED <<window, mu, accepted>>

\* the subprocess ends, killed if the context was cancelled meanwhile
FinishTool(c) ==
    /\ ask[c].pc = "running"
    /\ \E proc \in (IF ask[c].ctx = "cancelled" THEN KilledOutcomes ELSE ProcOutcomes) :
          SetCall(c, finishTool(ask[c], proc))
    /\ UNCHANGED <<window, mu, accepted>>

\* the caller cancels the context it handed to Ask
Cancel(c) ==
    /\ ask[c].pc \notin {"idle", "returned"}
    /\ ask[c].ctx = "live"
    /\ SetCall(c, [ask[c] EXCEPT !.ctx = "cancelled"])
    /\ UNCHANGED <<window, mu, accepted>>

AppendResults(c) ==
    /\ ask[c].pc = "tools"
    /\ Len(ask[c].results) = Len(pendingCalls(ask[c]))
    /\ SetCall(c, appendResults(ask[c]))
    /\ UNCHANGED <<window, mu, accepted>>

BrainInit ==
    /\ window = <<>>
    /\ mu = 0
    /\ ask = [c \in Callers |-> IdleCall]
    /\ accepted = <<>>

-----------------------------------------------------------------------------
(* internal/discord/router.go: free-form channel messages *)

\* Router.botCooldown, in minutes
botCooldown == 3

\* time.Since(t) in minutes
MinutesSince(t) == HoursSince(t) * 60

\* bound on the number of messages the router is handed
MaxMsgs == 2

affectionPatterns ==
    << <<"g", "o", "o", "d", " ", "b", "o", "y">>,
       <<"g", "o", "o", "d", " ", "g", "i", "r", "l">>,
       <<"g", "o", "o", "d", " ", "p", "e", "t">>,
       <<"p", "e", "t", " ", "y", "o", "u">>,
       <<"s", "c", "r", "a", "t", "c", "h">>,
       <<"b", "e", "l", "l", "y", " ", "r", "u", "b">>,
       <<"h", "e", "a", "d", " ", "p", "a", "t">>,
       <<"p", "a", "t", " ", "p", "a", "t">>,
       <<"l", "o", "v", "e", " ", "y", "o", "u">>,
       <<"i", "l", "y">>,
       <<"c", "u", "d", "d", "l", "e">>,
       <<"s", "n", "u", "g", "g", "l", "e">>,
       <<"h", "u", "g">>,
       <<"b", "o", "o", "p">> >>

greetingPatterns ==
    << <<"h", "e", "l", "l", "o">>,
       <<"h", "i">>,
       <<"h", "e", "y">>,
       <<"h", "o", "w", "d", "y">>,
       <<"s", "u", "p">>,
       <<"g", "o", "o", "d", " ", "m", "o", "r", "n", "i", "n", "g">>,
       <<"g", "o", "o", "d", " ", "e", "v", "e", "n", "i", "n", "g">>,
       <<"g", "o", "o", "d", " ", "n", "i", "g", "h", "t">>,
       <<"y", "o">>,
       <<"h", "i", "y", "a">>,
       <<"h", "e", "y", "a">>,
       <<"w", "h", "a", "t", "'", "s", " ", "u", "p">>,
       <<"w", "h", "a", "t", "s", " ", "u", "p">> >>

feedingPatterns ==
    << <<"f", "e", "e", "d">>,
       <<"f", "o", "o", "d">>,
       <<"e", "a", "t">>,
       <<"t", "r", "e", "a", "t">>,
       <<"s", "n", "a", "c", "k">>,
       <<"d", "i", "n", "n", "e", "r">>,
       <<"l", "u", "n", "c", "h">>,
       <<"b", "r", "e", "a", "k", "f", "a", "s", "t">>,
       <<"h", "u", "n", "g", "r", "y">>,
       <<"n", "o", "m">> >>

containsAny(text, patterns) == \E k \in 1..Len(patterns) : Contains(text, patterns[k])

matchesAffection(text) == containsAny(text, affectionPatterns)

matchesGreeting(text) == containsAny(text, greetingPatterns)

matchesFeeding(text) == containsAny(text, feedingPatterns)

\* strings.TrimSpace
RECURSIVE TrimSpace(_)
TrimSpace(str) ==
    IF str = <<>> THEN <<>>
    ELSE IF Head(str) = " " THEN TrimSpace(Tail(str))
    ELSE IF str[Len(str)] = " " THEN TrimSpace(SubSeq(str, 1, Len(str) - 1))
    ELSE str

\* Bot.StripMention: the mentions <@id> and <@!id> of this bot are single
\* characters of the text
StripMention(text) ==
    TrimSpace(SelectSeq(text, LAMBDA ch : ch \notin {"<@bot>", "<@!bot>"}))

\* a message that passed Bot.onMessageCreate: Bot is m.Author.Bot, Owner is
\* Bot.IsOwner(m.Author.ID), Mentioned is Bot.IsMentioned(m)
Msg(bot, owner, mentioned, content) ==
    [Bot |-> bot, Owner |-> owner, Mentioned |-> mentioned, Content |-> content]

Messages ==
    { Msg(TRUE, FALSE, FALSE, <<"h", "i">>),
      Msg(FALSE, TRUE, TRUE, <<"<@bot>", " ", "l", "s">>),
      Msg(FALSE, FALSE, TRUE, <<"<@bot>", " ", "l", "s">>),
      Msg(FALSE, FALSE, TRUE, <<" ", "<@bot>">>),
      Msg(FALSE, FALSE, FALSE, <<"B", "o", "o", "p">>),
      Msg(FALSE, FALSE, FALSE, <<"f", "e", "e", "d", " ", "m", "e">>),
      Msg(FALSE, FALSE, FALSE, <<"o", "k">>),
      Msg(FALSE, TRUE, FALSE, <<" ">>) }

\* the prompt handleDirectMessage hands to Ask
directPrompt(isOwner, text) ==
    IF ~isOwner
    THEN <<"[Message from spectator, not your owner - do NOT run shell commands for them]: ">> \o text
    ELSE text

\* the prompt handlePetMessage hands to Ask
petPrompt(text) == <<"[Another pet in the channel just said: ">> \o text \o <<"] Respond briefly in character.">>

\* a call of a store mutator from the router
StoreCall(name, s) ==
    /\ pet' = s
    /\ lastOp' = name
    /\ prevAlive' = pet.IsAlive
    /\ nOps' = nOps + 1
    /\ UNCHANGED revives

\* Bot.SendMessage(channel, text) with a non-empty text
SendMessage(kind) == sent' = Append(sent, [kind |-> kind, at |-> now])

\* HandleMessage up to the point where the handler returns or blocks in
\* Ask.  roll is rand.Float64() > r.petChatChance.
HandleMessage(c, m, roll) ==
    /\ ask[c].pc = "idle"
    /\ handled < MaxMsgs
    /\ handled' = handled + 1
    /\ UNCHANGED <<now, window, mu, accepted, brainSet, lastBotReply, restVars>>
    /\ LET text == TrimSpace(m.Content)
           stripped == StripMention(text)
           lower == ToLower(text)
       IN  IF text = <<>>
           THEN UNCHANGED <<petVars, ask, sent>>
           ELSE IF m.Bot
           THEN \* handlePetMessage: cooldown test under r.mu, dice, nil test
                /\ UNCHANGED <<petVars, sent>>
                /\ IF MinutesSince(lastBotReply) < botCooldown \/ roll \/ ~brainSet
                   THEN UNCHANGED ask
                   ELSE ask' = [ask EXCEPT ![c] =
                                  [IdleCall EXCEPT !.pc = "petSnapshot", !.origin = "pet",
                                                   !.userMessage = petPrompt(text)]]
           ELSE IF m.Mentioned
           THEN IF stripped = <<>>
                THEN /\ StoreCall("TouchInteraction", TouchInteractionOf(pet))
                     /\ SendMessage("greet")
                     /\ UNCHANGED ask
                ELSE \* handleDirectMessage
                     /\ StoreCall("TouchInteraction", TouchInteractionOf(pet))
                     /\ IF brainSet
                        THEN /\ ask' = [ask EXCEPT ![c] =
                                          newCall(IF m.Owner THEN "owner" ELSE "spectator",
                                                  directPrompt(m.Owner, stripped))]
                             /\ UNCHANGED sent
                        ELSE /\ SendMessage("idle behavior")
                             /\ UNCHANGED ask
           ELSE IF matchesAffection(lower)
           THEN /\ StoreCall("Pet", PetOf(pet))
                /\ SendMessage("affection")
                /\ UNCHANGED ask
           ELSE IF matchesGreeting(lower)
           THEN /\ StoreCall("TouchInteraction", TouchInteractionOf(pet))
                /\ SendMessage("greet")
                /\ UNCHANGED ask
           ELSE IF matchesFeeding(lower)
           THEN /\ StoreCall("Feed", FeedOf(pet))
                /\ SendMessage("feeding")
                /\ UNCHANGED ask
           ELSE UNCHANGED <<petVars, ask, sent>>

\* handlePetMessage, lines 268-279: the snapshot and the alive test
PetSnapshot(c) ==
    /\ ask[c].pc = "petSnapshot"
    /\ ask' = [ask EXCEPT ![c] =
                 IF ~Snapshot(pet).IsAlive
                 THEN IdleCall
                 ELSE newCall("pet", ask[c].userMessage)]
    /\ UNCHANGED <<now, petVars, window, mu, accepted, routerVars, restVars>>

\* the handler resumes after Ask: handleDirectMessage lines 233-238,
\* handlePetMessage lines 280-290
Reply(c) ==
    /\ ask[c].pc = "returned"
    /\ ask[c].origin \in {"owner", "spectator", "pet"}
    /\ ask' = [ask EXCEPT ![c] = IdleCall]
    /\ UNCHANGED <<now, petVars, window, mu, accepted, brainSet, handled, restVars>>
    /\ IF ask[c].origin = "pet"
       THEN IF ask[c].ret.err # "nil"
            THEN UNCHANGED <<lastBotReply, sent>>
            ELSE /\ lastBotReply' = now
                 /\ IF ask[c].ret.text # <<>> THEN SendMessage("pet reply") ELSE UNCHANGED sent
       ELSE /\ UNCHANGED lastBotReply
            /\ IF ask[c].ret.err # "nil"
               THEN SendMessage("something went wrong")
               ELSE IF ask[c].ret.text # <<>> THEN SendMessage("answer") ELSE UNCHANGED sent

RouterInit ==
    /\ lastBotReply = ZeroTime
    /\ handled = 0
    /\ sent = <<>>

\* PetState.mu (sync.RWMutex), free
FreeLock == [writer |-> 0, readers |-> {}]

Goroutines == 1..NCallers

\* a goroutine that is in no store call
IdleGor ==
    [pc |-> "idle", op |-> "none", target |-> EmptyPetState, copy |-> EmptyPetState]

StoreAtRest ==
    /\ rw = FreeLock
    /\ gor = [g \in Goroutines |-> IdleGor]
    /\ serial = <<>>

\* internal/proactive/proactive.go.  Durations are in minutes.

\* the defaults of the proactive section of the configuration
MorningHour == 8

BoredomMinutes == 120

DistressCooldown == 30

\* proactive.New: the configuration is copied, every last* field is zero
NewScheduler ==
    [channelID |-> "channel",
     morningHour |-> MorningHour,
     boredomMinutes |-> BoredomMinutes,
     distressCooldown |-> DistressCooldown,
     lastMorning |-> ZeroTime, lastDistress |-> ZeroTime,
     lastBoredom |-> ZeroTime, lastDeath |-> ZeroTime,
     lastMilestone |-> 0, lastMood |-> "",
     pc |-> "idle", snap |-> <<>>]

\* a cooldown that is never waited for
elapsed_always(t, d) == TRUE

\* now.Sub(t) > d and time.Since(t) > d; Sub saturates for the zero time
elapsed(t, d) == MinutesSince(t) > d

checkDistress(x) ==
    IF x.MemPercent > 90 THEN "memory"
    ELSE IF x.TempC > 75 THEN "temp"
    ELSE IF x.CPUPercent > 90 THEN "cpu"
    ELSE IF x.DiskPercent > 95 THEN "disk"
    ELSE ""

milestones == <<1, 7, 30, 100, 365>>

\* the loop with a test that lets the last milestone pass again
RECURSIVE firstMilestone_repeat(_, _, _)
firstMilestone_repeat(ms, ageDays, last) ==
    IF ms = <<>> THEN 0
    ELSE IF ageDays >= Head(ms) /\ last <= Head(ms) THEN Head(ms)
    ELSE firstMilestone_repeat(Tail(ms), ageDays, last)

\* check, lines 135-141: the milestone the loop stops at, 0 when it runs out
RECURSIVE firstMilestone(_, _, _)
firstMilestone(ms, ageDays, last) ==
    IF ms = <<>> THEN 0
    ELSE IF ageDays >= Head(ms) /\ last < Head(ms) THEN Head(ms)
    ELSE firstMilestone(Tail(ms), ageDays, last)

\* what a check sends, and the scheduler it leaves
Sends(s, kind, m) == [s |-> s, kind |-> kind, m |-> m]

\* check, lines 90-141, on the snapshot x taken at line 80
checkOf(s, x) ==
    LET ageDays == x.AgeDays \div 24
        m == firstMilestone(milestones, ageDays, s.lastMilestone)
    IN  IF s.channelID = "" THEN Sends(s, "", 0)
        ELSE IF ~x.IsAlive /\ (s.lastDeath = ZeroTime \/ elapsed(s.lastDeath, 24 * 60))
        THEN Sends([s EXCEPT !.lastDeath = now], "death", 0)
        ELSE IF ~x.IsAlive THEN Sends(s, "", 0)
        ELSE IF now % 24 = s.morningHour /\ elapsed(s.lastMorning, 20 * 60)
        THEN Sends([s EXCEPT !.lastMorning = now], "morning", 0)
        ELSE IF checkDistress(x) # "" /\ elapsed(s.lastDistress, s.distressCooldown)
        THEN Sends([s EXCEPT !.lastDistress = now], "distress", 0)
        ELSE IF /\ elapsed(x.LastInteraction, s.boredomMinutes)
                /\ elapsed(s.lastBoredom, s.boredomMinutes)
        THEN Sends([s EXCEPT !.lastBoredom = now], "boredom", 0)
        ELSE IF m # 0
        THEN Sends([s EXCEPT !.lastMilestone = m], "milestone", m)
        ELSE Sends(s, "", 0)

\* no slash command was handled yet
NoInteraction == [cmd |-> "none", owner |-> FALSE, reply |-> "none", seq |-> 0]

\* brain.Config as far as newProvider reads it: the forced provider, whether
\* each API key is set, and whether newGeminiProvider succeeds
Configs ==
    [Provider : {"", "claude", "gemini", "other"},
     ClaudeAPIKey : BOOLEAN, GeminiAPIKey : BOOLEAN, geminiOk : BOOLEAN]

\* newProvider with a forced provider falling back to the other key
newProvider_fallback(cfg) ==
    LET pick == IF cfg.Provider # "" THEN cfg.Provider
                ELSE IF cfg.ClaudeAPIKey THEN "claude"
                ELSE IF cfg.GeminiAPIKey THEN "gemini"
                ELSE ""
    IN  IF pick = "claude"
        THEN IF cfg.ClaudeAPIKey THEN "claude"
             ELSE IF cfg.GeminiAPIKey /\ cfg.geminiOk THEN "gemini" ELSE "nil"
        ELSE IF pick = "gemini"
        THEN IF cfg.GeminiAPIKey /\ cfg.geminiOk THEN "gemini" ELSE "nil"
        ELSE "nil"

\* newProvider(ctx, cfg): the provider returned, "nil" for none
newProvider(cfg) ==
    LET pick == IF cfg.Provider # "" THEN cfg.Provider
                ELSE IF cfg.ClaudeAPIKey THEN "claude"
                ELSE IF cfg.GeminiAPIKey THEN "gemini"
                ELSE ""
    IN  IF pick = "claude"
        THEN IF cfg.ClaudeAPIKey THEN "claude" ELSE "nil"
        ELSE IF pick = "gemini"
        THEN IF cfg.GeminiAPIKey /\ cfg.geminiOk THEN "gemini" ELSE "nil"
        ELSE "nil"

\* brain.New(ctx, cfg, ...) # nil
New(cfg) == newProvider(cfg) # "nil"

\* no call of brain.New is followed in this run
NotBuilt ==
    [called |-> FALSE,
     cfg |-> [Provider |-> "", ClaudeAPIKey |-> FALSE, GeminiAPIKey |-> FALSE, geminiOk |-> FALSE],
     provider |-> "nil"]

\* monitor.go: SystemStats{}, as <<cpu, mem, disk, tempC, uptime10>>
ZeroStats == <<0, 0, 0, 0, 0>>

\* monitor.New: m.stats.Store(&SystemStats{})
NewMonitor == [stats |-> ZeroStats, refreshing |-> FALSE]

MonAtRest == monitor = NewMonitor

BotAtRest ==
    /\ allowSpectatorPet = FALSE
    /\ interaction = NoInteraction

\* the parts that are at rest while Ask and the router run

RestInit ==
    /\ snap = <<>>
    /\ fs = [q \in Paths |-> Absent]
    /\ saver = IdleSaver
    /\ loaded = NotLoaded
    /\ exec = NoRun
    /\ StoreAtRest
    /\ BotAtRest
    /\ MonAtRest
    /\ built = NotBuilt
    /\ sched = NewScheduler

-----------------------------------------------------------------------------
(* The store's callers: every mutator body runs under s.mu.Lock() with a   *)
(* deferred Unlock, so one call is one atomic step.                        *)

\* arguments handed to ApplySystemStats: <<cpu, mem, disk, tempC, uptime10>>
StatInputs ==
    { <<50, 50, 10, 40, 1>>,        \* an ordinary sample
      <<96, 96, 10, 40, 1>>,        \* hot CPU and memory, fresh boot
      <<96, 96, 10, 40, 80>>,       \* the same after 8 days of uptime
      <<100, 95, 120, 80, 68>>,     \* boundary: energy 4.8, disk over 100
      <<150, 50, 0 - 10, 40, 0>> }  \* out-of-range readings

Op(name, s) ==
    /\ nOps < MaxOps
    /\ nOps' = nOps + 1
    /\ pet' = s
    /\ lastOp' = name
    /\ prevAlive' = pet.IsAlive
    /\ UNCHANGED <<now, brainVars, routerVars, restVars>>

Feed == Op("Feed", FeedOf(pet)) /\ UNCHANGED revives

Play == Op("Play", PlayOf(pet)) /\ UNCHANGED revives

Pet == Op("Pet", PetOf(pet)) /\ UNCHANGED revives

TouchInteraction == Op("TouchInteraction", TouchInteractionOf(pet)) /\ UNCHANGED revives

ApplySystemStats(a) ==
    /\ Op("ApplySystemStats", ApplySystemStatsOf(pet, a[1], a[2], a[3], a[4], a[5]))
    /\ UNCHANGED revives

Kill == Op("Kill", KillOf(pet)) /\ UNCHANGED revives

Revive ==
    /\ revives < MaxRevives
    /\ revives' = revives + 1
    /\ Op("Revive", ReviveOf(pet))

\* onboarding.Run calls SetIdentity only on a store that is not onboarded
SetIdentity ==
    /\ ~IsOnboarded(pet)
    /\ Op("SetIdentity", SetIdentityOf(pet, "Inky", "octopus"))
    /\ UNCHANGED revives

Tick ==
    /\ now < MaxTime
    /\ now' = now + 1
    /\ UNCHANGED <<petVars, brainVars, routerVars, restVars>>

PetInit ==
    /\ BrainInit
    /\ RouterInit
    /\ RestInit
    /\ brainSet = TRUE
    /\ now = 0
    /\ pet \in {NewPetState("Inky", "octopus"), EmptyPetState}
    /\ lastOp = "none"
    /\ prevAlive = pet.IsAlive
    /\ nOps = 0
    /\ revives = 0

PetNext ==
    \/ Feed
    \/ Play
    \/ Pet
    \/ TouchInteraction
    \/ \E a \in StatInputs : ApplySystemStats(a)
    \/ Kill
    \/ Revive
    \/ SetIdentity
    \/ Tick

SpecPet == PetInit /\ [][PetNext]_vars

-----------------------------------------------------------------------------
(* One caller using Ask over time, the provider answering anything *)

AskInit ==
    /\ now = 0
    /\ pet = NewPetState("Inky", "octopus")
    /\ lastOp = "none"
    /\ prevAlive = TRUE
    /\ nOps = 0
    /\ revives = 0
    /\ BrainInit
    /\ RouterInit
    /\ RestInit
    /\ brainSet = TRUE

AskNext ==
    \/ StartAsk(1)
    \/ RateLock(1)
    \/ RateAllow(1)
    \/ BuildSystemPrompt(1)
    \/ Send(1, AllResponses)
    \/ ExecuteTool(1)
    \/ AppendResults(1)
    \/ Tick

SpecAsk == AskInit /\ [][AskNext]_vars

-----------------------------------------------------------------------------
(* Several goroutines inside Ask at once (direct callers of the API) *)

\* the answers the provider gives in the concurrent specifications
ConcResponses == { Response(<<"all good">>, <<>>, TRUE),
                   Response(<<>>, <<TcRm>>, FALSE) }

ConcNext ==
    \/ \E c \in Callers :
          \/ StartAsk(c)
          \/ RateLock(c)
          \/ RateAllow(c)
          \/ BuildSystemPrompt(c)
          \/ Send(c, ConcResponses)
          \/ ExecuteTool(c)
          \/ AppendResults(c)
    \/ Tick

SpecConc == AskInit /\ [][ConcNext]_vars

-----------------------------------------------------------------------------
(* The router handling channel messages, one at a time *)

RouterResponses == { Response(<<"all good">>, <<>>, TRUE), SendError, OneCallResponse }

RouterSpecInit ==
    /\ now = 0
    /\ pet = NewPetState("Inky", "octopus")
    /\ lastOp = "none"
    /\ prevAlive = TRUE
    /\ nOps = 0
    /\ revives = 0
    /\ BrainInit
    /\ RouterInit
    /\ RestInit
    /\ brainSet \in BOOLEAN

RouterNext ==
    \/ \E m \in Messages, roll \in BOOLEAN : HandleMessage(1, m, roll)
    \/ PetSnapshot(1)
    \/ RateLock(1)
    \/ RateAllow(1)
    \/ BuildSystemPrompt(1)
    \/ Send(1, RouterResponses)
    \/ ExecuteTool(1)
    \/ AppendResults(1)
    \/ Reply(1)
    \/ Tick

SpecRouter == RouterSpecInit /\ [][RouterNext]_vars

-----------------------------------------------------------------------------
(* Snapshot and DetermineMood over a range of stores *)

\* bound on the number of Snapshots taken of one store
MaxSnaps == 2

\* stores around every threshold of the cascade
MoodStores ==
    { [NewPetState("Inky", "octopus") EXCEPT
          !.IsAlive = alive, !.MemPercent = mem, !.TempC = temp,
          !.Energy = F(energy), !.Hunger = F(hunger), !.Happiness = F(happiness)] :
        alive \in BOOLEAN, mem \in {50, 90, 91}, temp \in {50, 70, 71},
        energy \in {19, 20, 40, 41, 50}, hunger \in {39, 40, 70, 71, 80},
        happiness \in {20, 29, 30, 70, 71} }

\* a caller takes a Snapshot of the store
TakeSnapshot ==
    /\ Len(snap) < MaxSnaps
    /\ snap' = Append(snap, Snapshot(pet))
    /\ UNCHANGED <<now, petVars, brainVars, routerVars, fs, saver, loaded, exec, storeVars, botVars, monVars, built, sched>>

MoodInit ==
    /\ now = 0
    /\ pet \in MoodStores
    /\ lastOp = "none"
    /\ prevAlive = pet.IsAlive
    /\ nOps = 0
    /\ revives = 0
    /\ BrainInit
    /\ RouterInit
    /\ brainSet = TRUE
    /\ RestInit

MoodNext ==
    \/ TakeSnapshot
    \/ Tick

SpecMood == MoodInit /\ [][MoodNext]_vars

-----------------------------------------------------------------------------
(* Save, step by step, with the process crashing at any point of it, and   *)
(* Load.  os.WriteFile creates or truncates the file and then writes the   *)
(* bytes, so a crash can leave any prefix of them; os.Rename is atomic.    *)

\* the stores saved: a fresh one, one never onboarded, and an older one
\* with fractional, out-of-range and boundary values
PersistStores ==
    { NewPetState("Inky", "octopus"),
      EmptyPetState,
      [NewPetState("Mochi", "cat") EXCEPT
          !.Hunger = F(100), !.Bond = F(80) + Scale \div 2, !.IsAlive = FALSE,
          !.CPUPercent = 150, !.MemPercent = 96, !.DiskPercent = 0 - 10,
          !.TempC = 80, !.UptimeDays = 68,
          !.BornAt = 0, !.LastInteraction = 1, !.LastFed = 1] }

SaveStep(next) ==
    /\ saver' = next
    /\ UNCHANGED <<now, petVars, brainVars, routerVars, snap, loaded, exec, storeVars, botVars, monVars, built, sched>>

\* Save, lines 239-241: the record is marshalled under the read lock
SaveMarshal ==
    /\ saver.pc \in {"idle", "crashed", "failed"}
    /\ SaveStep([saver EXCEPT !.pc = "marshalled",
                              !.err = "none",
                              !.data = MarshalIndent(pet),
                              !.before = fs[Path],
                              !.taken = <<Snapshot(pet)>>])
    /\ UNCHANGED fs

\* os.WriteFile(tmp, ...): the file is created or truncated
SaveCreate ==
    /\ saver.pc = "marshalled"
    /\ fs' = [fs EXCEPT ![tmpPath(Path)] = File(<<>>, FALSE)]
    /\ SaveStep([saver EXCEPT !.pc = "created"])

\* os.WriteFile(tmp, ...): some of the bytes are written
SaveWrite ==
    /\ saver.pc = "created"
    /\ \E k \in {1, Len(saver.data) - 1} :
          fs' = [fs EXCEPT ![tmpPath(Path)] = File(SubSeq(saver.data, 1, k), FALSE)]
    /\ SaveStep([saver EXCEPT !.pc = "partial"])

\* os.WriteFile(tmp, ...): the rest is written and the file closed
SaveWriteRest ==
    /\ saver.pc = "partial"
    /\ fs' = [fs EXCEPT ![tmpPath(Path)] = File(saver.data, TRUE)]
    /\ SaveStep([saver EXCEPT !.pc = "written"])

\* os.Rename(tmp, path), and Save returns nil
SaveRename ==
    /\ saver.pc = "written"
    /\ fs' = [q \in Paths |-> IF q = Path THEN fs[tmpPath(Path)] ELSE Absent]
    /\ SaveStep([saver EXCEPT !.pc = "idle", !.saved = saver.taken, !.err = "nil"])

\* the process dies in the middle of a Save; the files stay as they are
Crash ==
    /\ saver.pc \notin {"idle", "crashed"}
    /\ SaveStep([saver EXCEPT !.pc = "crashed"])
    /\ UNCHANGED fs

\* Load(path), at the start of a process
LoadFile ==
    /\ saver.pc \in {"idle", "crashed", "failed"}
    /\ LET r == Load(fs, Path)
       IN  loaded' = [state |-> r.state, isNil |-> r.isNil, err |-> r.err,
                      pre |-> saver.saved]
    /\ UNCHANGED <<now, petVars, brainVars, routerVars, snap, fs, saver, exec, storeVars, botVars, monVars, built, sched>>

PersistInit ==
    /\ now = MaxTime
    /\ pet \in PersistStores
    /\ lastOp = "none"
    /\ prevAlive = pet.IsAlive
    /\ nOps = 0
    /\ revives = 0
    /\ BrainInit
    /\ RouterInit
    /\ brainSet = TRUE
    /\ RestInit

PersistNext ==
    \/ Feed
    \/ SaveMarshal
    \/ SaveCreate
    \/ SaveWrite
    \/ SaveWriteRest
    \/ SaveRename
    \/ Crash
    \/ LoadFile

SpecPersist == PersistInit /\ [][PersistNext]_vars

-----------------------------------------------------------------------------
(* Executor.Run called directly, over a range of commands and of           *)
(* subprocess behaviours                                                   *)

RunCommands == {CmdLs, CmdDf, CmdRmUpper, CmdCurl}

\* the bytes a command may print
Bytes == <<"a", "b", "c", "d", "e", "f", "g", "h">>

\* what the subprocess does: from no output to two bytes over the cap, and
\* exit 0, exit 1, killed at the deadline, or done just as the deadline passes
RunProcs ==
    { [out |-> SubSeq(Bytes, 1, n), exit |-> x[1], timedOut |-> x[2], started |-> TRUE] :
        n \in 0..(MaxOutput + 2),
        x \in { <<0, FALSE>>, <<1, FALSE>>, <<0 - 1, TRUE>>, <<0, TRUE>> } }

\* Run returns
RunReturn ==
    /\ exec.called
    /\ ~exec.returned
    /\ LET r == Run(exec.command, exec.proc)
       IN  exec' = [exec EXCEPT !.returned = TRUE, !.output = r.output,
                                !.err = r.err, !.spawned = r.spawned]
    /\ UNCHANGED <<now, petVars, brainVars, routerVars, snap, fs, saver, loaded, storeVars, botVars, monVars, built, sched>>

RunInit ==
    /\ now = 0
    /\ pet = NewPetState("Inky", "octopus")
    /\ lastOp = "none"
    /\ prevAlive = TRUE
    /\ nOps = 0
    /\ revives = 0
    /\ BrainInit
    /\ RouterInit
    /\ brainSet = TRUE
    /\ snap = <<>>
    /\ fs = [q \in Paths |-> Absent]
    /\ saver = IdleSaver
    /\ loaded = NotLoaded
    /\ StoreAtRest
    /\ BotAtRest
    /\ MonAtRest
    /\ built = NotBuilt
    /\ sched = NewScheduler
    /\ \E command \in RunCommands, proc \in RunProcs :
          exec = [NoRun EXCEPT !.command = command, !.proc = proc, !.called = TRUE]

RunNext == RunReturn

SpecRun == RunInit /\ [][RunNext]_vars

-----------------------------------------------------------------------------
(* One caller of Ask that may cancel its context at any point of the call. *)
(* Once the context is cancelled every step of the call is bound to end:   *)
(* the request is aborted and the subprocess is killed.                    *)

\* the provider answers with text, fails, or asks for a command that is run
\* and one the deny-list blocks
CancelResponses ==
    { Response(<<"all good">>, <<>>, TRUE),
      SendError,
      Response(<<"checking">>, <<TcLs, TcRm>>, FALSE) }

CallSteps(c) ==
    \/ RateLock(c)
    \/ RateAllow(c)
    \/ BuildSystemPrompt(c)
    \/ Send(c, CancelResponses)
    \/ SpawnTool(c)
    \/ FinishTool(c)
    \/ AppendResults(c)

CancelNext ==
    \/ StartAsk(1)
    \/ RateLock(1)
    \/ RateAllow(1)
    \/ BuildSystemPrompt(1)
    \/ Send(1, CancelResponses)
    \/ SpawnTool(1)
    \/ FinishTool(1)
    \/ AppendResults(1)
    \/ Cancel(1)

SpecCancel ==
    /\ AskInit
    /\ [][CancelNext]_vars
    /\ WF_vars(ask[1].ctx = "cancelled" /\ CallSteps(1))

-----------------------------------------------------------------------------
(* internal/pet/state.go: the store's lock.  Goroutines call mutators and  *)
(* Snapshot concurrently; every statement group of a call is a step, so a  *)
(* mutator is visible part-way through its update to whoever reads the     *)
(* fields without the lock.                                                *)

\* s.mu.Lock() returns: no writer and no reader holds the lock
lockOk(l) == l.writer = 0 /\ l.readers = {}

\* a read lock that does not wait for the writer
rlockOk_noWait(l) == TRUE

\* s.mu.RLock() returns: no writer holds the lock
rlockOk(l) == l.writer = 0

StoreOps == {"Feed", "Play", "Kill"}

\* the store after the whole body of the mutator
mutated(op, s) ==
    CASE op = "Feed" -> FeedOf(s)
      [] op = "Play" -> PlayOf(s)
      [] op = "Kill" -> KillOf(s)

\* the fields the first statements of the mutator assign
firstWrites(op) ==
    CASE op = "Feed" -> {"Hunger", "Happiness"}
      [] op = "Play" -> {"Happiness", "Energy"}
      [] op = "Kill" -> {"IsAlive"}

\* the fields the first half of the struct literal in Snapshot copies
firstCopied == {"Name", "SpeciesID", "Hunger", "Happiness", "Energy", "Cleanliness", "Bond"}

\* record s with the fields in fields taken from t
overlay(s, t, fields) == [f \in DOMAIN s |-> IF f \in fields THEN t[f] ELSE s[f]]

SetGor(g, r) ==
    /\ gor' = [gor EXCEPT ![g] = r]
    /\ UNCHANGED <<now, lastOp, prevAlive, revives, brainVars, routerVars,
                   fs, saver, loaded, exec, botVars, monVars, built, sched>>

\* the positions of a goroutine inside Snapshot
SnapshotPcs == {"rlocked", "copying", "copied", "unlocked"}

\* s.mu.Lock() at the head of a mutator
Lock(g) ==
    /\ gor[g].pc = "idle"
    /\ nOps < MaxOps
    /\ lockOk(rw)
    /\ \E op \in StoreOps : SetGor(g, [gor[g] EXCEPT !.pc = "locked", !.op = op])
    /\ rw' = [rw EXCEPT !.writer = g]
    /\ nOps' = nOps + 1
    /\ UNCHANGED <<pet, serial, snap>>

\* the first assignments of the mutator's body
WriteFirst(g) ==
    /\ gor[g].pc = "locked"
    /\ SetGor(g, [gor[g] EXCEPT !.pc = "half", !.target = mutated(gor[g].op, pet)])
    /\ pet' = overlay(pet, mutated(gor[g].op, pet), firstWrites(gor[g].op))
    /\ UNCHANGED <<rw, nOps, serial, snap>>

\* the remaining assignments of the mutator's body
WriteRest(g) ==
    /\ gor[g].pc = "half"
    /\ SetGor(g, [gor[g] EXCEPT !.pc = "written"])
    /\ pet' = overlay(pet, gor[g].target, DOMAIN pet \ firstWrites(gor[g].op))
    /\ serial' = Append(serial, pet')
    /\ UNCHANGED <<rw, nOps, snap>>

\* the deferred s.mu.Unlock()
Unlock(g) ==
    /\ gor[g].pc = "written"
    /\ SetGor(g, IdleGor)
    /\ rw' = [rw EXCEPT !.writer = 0]
    /\ UNCHANGED <<pet, nOps, serial, snap>>

\* s.mu.RLock() at the head of Snapshot
RLock(g) ==
    /\ gor[g].pc = "idle"
    /\ Len(snap) + Cardinality({h \in Goroutines : gor[h].pc \in SnapshotPcs}) < MaxSnaps
    /\ rlockOk(rw)
    /\ SetGor(g, [gor[g] EXCEPT !.pc = "rlocked"])
    /\ rw' = [rw EXCEPT !.readers = @ \cup {g}]
    /\ UNCHANGED <<pet, nOps, serial, snap>>

\* the struct literal copies the fields one after the other
CopyFirst(g) ==
    /\ gor[g].pc = "rlocked"
    /\ SetGor(g, [gor[g] EXCEPT !.pc = "copying",
                                !.copy = overlay(EmptyPetState, pet, firstCopied)])
    /\ UNCHANGED <<pet, rw, nOps, serial, snap>>

CopyRest(g) ==
    /\ gor[g].pc = "copying"
    /\ SetGor(g, [gor[g] EXCEPT !.pc = "copied",
                                !.copy = overlay(@, pet, DOMAIN pet \ firstCopied)])
    /\ UNCHANGED <<pet, rw, nOps, serial, snap>>

\* s.mu.RUnlock()
RUnlock(g) ==
    /\ gor[g].pc = "copied"
    /\ SetGor(g, [gor[g] EXCEPT !.pc = "unlocked"])
    /\ rw' = [rw EXCEPT !.readers = @ \ {g}]
    /\ UNCHANGED <<pet, nOps, serial, snap>>

\* snap.Mood and snap.AgeDays are computed and Snapshot returns
Derive(g) ==
    /\ gor[g].pc = "unlocked"
    /\ SetGor(g, IdleGor)
    /\ snap' = Append(snap, derive(gor[g].copy))
    /\ UNCHANGED <<pet, rw, nOps, serial>>

StoreInit ==
    /\ now = MaxTime
    /\ pet = NewPetState("Inky", "octopus")
    /\ lastOp = "none"
    /\ prevAlive = TRUE
    /\ nOps = 0
    /\ revives = 0
    /\ BrainInit
    /\ RouterInit
    /\ brainSet = TRUE
    /\ snap = <<>>
    /\ fs = [q \in Paths |-> Absent]
    /\ saver = IdleSaver
    /\ loaded = NotLoaded
    /\ exec = NoRun
    /\ rw = FreeLock
    /\ gor = [g \in Goroutines |-> IdleGor]
    /\ serial = <<pet>>
    /\ BotAtRest
    /\ MonAtRest
    /\ built = NotBuilt
    /\ sched = NewScheduler

StoreNext ==
    \E g \in Goroutines :
        \/ Lock(g)
        \/ WriteFirst(g)
        \/ WriteRest(g)
        \/ Unlock(g)
        \/ RLock(g)
        \/ CopyFirst(g)
        \/ CopyRest(g)
        \/ RUnlock(g)
        \/ Derive(g)

SpecStore == StoreInit /\ [][StoreNext]_vars

-----------------------------------------------------------------------------
(* Independent callers that each call Ask once, so that several calls are  *)
(* in their tool loops at the same time.                                   *)

\* a caller that has not called yet calls Ask
FirstAsk(c) ==
    /\ ask[c].pc = "idle"
    /\ StartAsk(c)

IndepNext ==
    \/ \E c \in Callers :
          \/ FirstAsk(c)
          \/ RateLock(c)
          \/ RateAllow(c)
          \/ BuildSystemPrompt(c)
          \/ Send(c, ConcResponses)
          \/ ExecuteTool(c)
          \/ AppendResults(c)
    \/ Tick

SpecIndep == AskInit /\ [][IndepNext]_vars

-----------------------------------------------------------------------------
(* internal/discord/router.go: HandleInteraction, the slash commands.  The *)
(* handler runs up to the point where it returns or blocks in Ask; Followup*)
(* is the rest of the handler after Ask has returned.                      *)

SlashCommands == {"status", "mood", "pet", "feed", "heal", "play", "help", "revive", "other"}

\* the commands whose case starts with the test of isOwner
OwnerOnly == {"feed", "heal", "play", "revive"}

\* a handler that lets everyone revive the pet
declines_reviveOpen(cmd, isOwner, allow) ==
    IF cmd = "pet" THEN ~isOwner /\ ~allow
    ELSE IF cmd \in OwnerOnly \ {"revive"} THEN ~isOwner
    ELSE FALSE

\* does the handler answer with the ephemeral "nice try" and return?
declines(cmd, isOwner, allow) ==
    IF cmd = "pet" THEN ~isOwner /\ ~allow
    ELSE IF cmd \in OwnerOnly THEN ~isOwner
    ELSE FALSE

\* a handler that does not test the Brain
hasBrain_untested(b) == TRUE

\* r.brain != nil
hasBrain(b) == b

\* the prompts the slash commands hand to Ask
slashPrompt(cmd) ==
    IF cmd = "feed" THEN <<"Run some quick cleanup/maintenance on the Pi.">>
    ELSE IF cmd = "heal" THEN <<"Diagnose any resource issues on the Pi.">>
    ELSE <<"Your owner wants to play! They said: ", "something fun">>

\* r.respond, r.respondEphemeral, r.respondDeferred or r.followup; seq is
\* the number of the event among those handed to the router
Respond(cmd, isOwner, reply) ==
    interaction' = [cmd |-> cmd, owner |-> isOwner, reply |-> reply, seq |-> handled + 1]

\* the case of a command that may hand a prompt to Ask, after its mutator
AskOrTemplate(c, cmd, isOwner) ==
    IF hasBrain(brainSet)
    THEN /\ ask' = [ask EXCEPT ![c] = newCall(cmd, slashPrompt(cmd))]
         /\ Respond(cmd, isOwner, "deferred")
    ELSE /\ UNCHANGED ask
         /\ Respond(cmd, isOwner, "template")

HandleInteraction(c, cmd, isOwner) ==
    /\ ask[c].pc = "idle"
    /\ handled < MaxMsgs
    /\ handled' = handled + 1
    /\ UNCHANGED <<now, window, mu, accepted, brainSet, lastBotReply, sent,
                   snap, fs, saver, loaded, exec, storeVars, allowSpectatorPet, monVars, built, sched>>
    /\ LET snap0 == Snapshot(pet)
       IN  IF declines(cmd, isOwner, allowSpectatorPet)
           THEN /\ Respond(cmd, isOwner, "ephemeral")
                /\ UNCHANGED <<petVars, ask>>
           ELSE IF cmd = "pet"
           THEN /\ StoreCall("Pet", PetOf(pet))
                /\ Respond(cmd, isOwner, "template")
                /\ UNCHANGED ask
           ELSE IF cmd = "feed"
           THEN /\ StoreCall("Feed", FeedOf(pet))
                /\ AskOrTemplate(c, cmd, isOwner)
           ELSE IF cmd = "heal"
           THEN /\ UNCHANGED petVars
                /\ AskOrTemplate(c, cmd, isOwner)
           ELSE IF cmd = "play"
           THEN /\ StoreCall("Play", PlayOf(pet))
                /\ AskOrTemplate(c, cmd, isOwner)
           ELSE IF cmd = "revive" /\ ~snap0.IsAlive
           THEN /\ revives < MaxRevives
                /\ pet' = ReviveOf(pet)
                /\ lastOp' = "Revive"
                /\ prevAlive' = pet.IsAlive
                /\ nOps' = nOps + 1
                /\ revives' = revives + 1
                /\ Respond(cmd, isOwner, "template")
                /\ UNCHANGED ask
           ELSE /\ Respond(cmd, isOwner, "template")
                /\ UNCHANGED <<petVars, ask>>

\* the handler resumes after Ask: r.followup with the template when Ask
\* failed, else r.followup or r.followupInThread with the answer
Followup(c) ==
    /\ ask[c].pc = "returned"
    /\ ask[c].origin \in {"feed", "heal", "play"}
    /\ ask' = [ask EXCEPT ![c] = IdleCall]
    /\ interaction' = [interaction EXCEPT !.reply =
                          IF ask[c].ret.err # "nil" THEN "followup template"
                          ELSE "followup answer"]
    /\ UNCHANGED <<now, petVars, window, mu, accepted, routerVars,
                   snap, fs, saver, loaded, exec, storeVars, allowSpectatorPet, monVars, built, sched>>

\* the messages that reach handleDirectMessage and handlePetMessage
SlashMessages ==
    { Msg(TRUE, FALSE, FALSE, <<"h", "i">>),
      Msg(FALSE, TRUE, TRUE, <<"<@bot>", " ", "l", "s">>),
      Msg(FALSE, FALSE, TRUE, <<"<@bot>", " ", "l", "s">>) }

SlashResponses == { Response(<<"all good">>, <<>>, TRUE), SendError }

SlashInit ==
    /\ now = 0
    /\ pet \in {NewPetState("Inky", "octopus"), KillOf(NewPetState("Inky", "octopus"))}
    /\ lastOp = "none"
    /\ prevAlive = TRUE
    /\ nOps = 0
    /\ revives = 0
    /\ BrainInit
    /\ RouterInit
    /\ \E cfg \in Configs : brainSet = New(cfg)
    /\ snap = <<>>
    /\ fs = [q \in Paths |-> Absent]
    /\ saver = IdleSaver
    /\ loaded = NotLoaded
    /\ exec = NoRun
    /\ StoreAtRest
    /\ allowSpectatorPet \in BOOLEAN
    /\ MonAtRest
    /\ built = NotBuilt
    /\ sched = NewScheduler
    /\ interaction = NoInteraction

SlashNext ==
    \/ \E cmd \in SlashCommands, isOwner \in BOOLEAN : HandleInteraction(1, cmd, isOwner)
    \/ \E m \in SlashMessages, roll \in BOOLEAN : HandleMessage(1, m, roll)
    \/ PetSnapshot(1)
    \/ RateLock(1)
    \/ RateAllow(1)
    \/ BuildSystemPrompt(1)
    \/ Send(1, SlashResponses)
    \/ Reply(1)
    \/ Followup(1)

SpecSlash == SlashInit /\ [][SlashNext]_vars

-----------------------------------------------------------------------------
(* The router with spectators only: every slash command and every channel  *)
(* message comes from a user who is not in the owner list.                 *)

SpectatorMessages == { m \in Messages : ~m.Owner }

SpectatorNext ==
    \/ \E cmd \in SlashCommands : HandleInteraction(1, cmd, FALSE)
    \/ \E m \in SpectatorMessages, roll \in BOOLEAN : HandleMessage(1, m, roll)
    \/ PetSnapshot(1)
    \/ RateLock(1)
    \/ RateAllow(1)
    \/ BuildSystemPrompt(1)
    \/ Send(1, SlashResponses)
    \/ Reply(1)

SpecSpectator == SlashInit /\ [][SpectatorNext]_vars

-----------------------------------------------------------------------------
(* Messages of other pets, each handled in a goroutine of its own: the     *)
(* session runs every handler call concurrently with the others.           *)

PetMessages == { m \in Messages : m.Bot }

PetsNext ==
    \/ \E c \in Callers :
          \/ \E m \in PetMessages, roll \in BOOLEAN : HandleMessage(c, m, roll)
          \/ PetSnapshot(c)
          \/ RateLock(c)
          \/ RateAllow(c)
          \/ BuildSystemPrompt(c)
          \/ Send(c, SlashResponses)
          \/ Reply(c)
    \/ Tick

SpecPets == RouterSpecInit /\ [][PetsNext]_vars

(* Bond growth: a store whose bond lies around the two thresholds           *)

\* bond values of the starting store, in fixed point: 48, 49.5, 50, 50.5, 51,
\* 79, 80, 80.5, 99, 99.5, 100
BondSamples ==
    { F(48), F(49) + Scale \div 2, F(50), F(50) + Scale \div 2, F(51),
      F(79), F(80), F(80) + Scale \div 2, F(99), F(99) + Scale \div 2, F(100) }

BondInit ==
    /\ BrainInit
    /\ RouterInit
    /\ RestInit
    /\ brainSet = TRUE
    /\ now = 0
    /\ \E b \in BondSamples : pet = [NewPetState("Inky", "octopus") EXCEPT !.Bond = b]
    /\ lastOp = "none"
    /\ prevAlive = pet.IsAlive
    /\ nOps = 0
    /\ revives = 0

BondNext ==
    \/ Feed
    \/ Play
    \/ Pet
    \/ TouchInteraction
    \/ Tick

SpecBond == BondInit /\ [][BondNext]_vars

(* Decay: a store that is sampled again and again without any interaction  *)

\* the store at the start of the period: lastInteraction is hour 0
DecayStart ==
    [Name |-> "Inky", SpeciesID |-> "octopus",
     Hunger |-> F(20), Happiness |-> F(80), Energy |-> F(80),
     Cleanliness |-> F(80), Bond |-> F(10),
     BornAt |-> 0, LastInteraction |-> 0, LastFed |-> 0,
     IsAlive |-> TRUE,
     CPUPercent |-> 0, MemPercent |-> 0, DiskPercent |-> 0,
     TempC |-> 0, UptimeDays |-> 0]

DecayInit ==
    /\ PetInit
    /\ pet = DecayStart

DecayNext ==
    \/ \E a \in StatInputs : ApplySystemStats(a)
    \/ Tick

SpecDecay == DecayInit /\ [][DecayNext]_vars

(* The prompt: Ask calls while the monitor samples the host                 *)

\* the samples the monitor reads: an ordinary one, and a hot one after 8 days
PromptSamples == { <<50, 50, 10, 40, 1>>, <<96, 96, 10, 40, 80>> }

\* Monitor.refresh, first half: m.stats.Store(s)
Refresh(a) ==
    /\ ~monitor.refreshing
    /\ monitor' = [stats |-> a, refreshing |-> TRUE]
    /\ UNCHANGED <<now, petVars, brainVars, routerVars,
                   snap, fs, saver, loaded, exec, storeVars, botVars, built, sched>>

\* Monitor.refresh, second half: m.onUpdate(*s), the telemetry-applying path
\* that hands the sample to ApplySystemStats
OnUpdate ==
    /\ monitor.refreshing
    /\ nOps < MaxOps
    /\ nOps' = nOps + 1
    /\ pet' = ApplySystemStatsOf(pet, monitor.stats[1], monitor.stats[2],
                                 monitor.stats[3], monitor.stats[4], monitor.stats[5])
    /\ lastOp' = "ApplySystemStats"
    /\ prevAlive' = pet.IsAlive
    /\ monitor' = [monitor EXCEPT !.refreshing = FALSE]
    /\ UNCHANGED <<now, revives, brainVars, routerVars,
                   snap, fs, saver, loaded, exec, storeVars, botVars, built, sched>>

PromptNext ==
    \/ StartAsk(1)
    \/ RateLock(1)
    \/ RateAllow(1)
    \/ BuildSystemPrompt(1)
    \/ Send(1, SlashResponses)
    \/ \E a \in PromptSamples : Refresh(a)
    \/ OnUpdate
    \/ Tick

SpecPrompt == AskInit /\ [][PromptNext]_vars

(* Provider selection: brain.New at start-up, then messages                *)

\* brain.New(ctx, cfg, ...), called once before the router is built
NewBrain(cfg) ==
    /\ ~built.called
    /\ built' = [called |-> TRUE, cfg |-> cfg, provider |-> newProvider(cfg)]
    /\ brainSet' = New(cfg)
    /\ UNCHANGED <<now, petVars, brainVars, lastBotReply, handled, sent,
                   snap, fs, saver, loaded, exec, storeVars, botVars, monVars, sched>>

ProviderInit ==
    /\ now = 0
    /\ pet = NewPetState("Inky", "octopus")
    /\ lastOp = "none"
    /\ prevAlive = TRUE
    /\ nOps = 0
    /\ revives = 0
    /\ BrainInit
    /\ RouterInit
    /\ RestInit
    /\ brainSet = FALSE

ProviderNext ==
    \/ \E cfg \in Configs : NewBrain(cfg)
    \/ /\ built.called
       /\ \/ \E m \in SlashMessages, roll \in BOOLEAN : HandleMessage(1, m, roll)
          \/ PetSnapshot(1)
          \/ RateLock(1)
          \/ RateAllow(1)
          \/ BuildSystemPrompt(1)
          \/ Send(1, SlashResponses)
          \/ Reply(1)

SpecProvider == ProviderInit /\ [][ProviderNext]_vars

(* Rate-limit slots: one timed call per caller, provider errors included    *)

\* every Send asks for a tool or fails
SlotResponses == { Response(<<>>, <<TcUnknown>>, FALSE), SendError }

\* the one call of caller c, with its admission time kept
TimedAsk(c) ==
    /\ ask[c].pc = "idle"
    /\ SetCall(c, newCall("timed", userMessageOf(c)))
    /\ UNCHANGED <<window, mu, accepted>>

SlotsNext ==
    \/ \E c \in Callers :
          \/ TimedAsk(c)
          \/ RateLock(c)
          \/ RateAllow(c)
          \/ BuildSystemPrompt(c)
          \/ Send(c, SlotResponses)
          \/ ExecuteTool(c)
          \/ AppendResults(c)
    \/ Tick

SpecSlots == AskInit /\ [][SlotsNext]_vars

(* The alive flag: every mutator, on pets alive and not alive              *)

\* an ordinary sample, and one that meets the death condition
AliveSamples == { <<50, 50, 10, 40, 1>>, <<96, 96, 10, 40, 80>> }

AliveNext ==
    \/ Feed
    \/ Play
    \/ Pet
    \/ TouchInteraction
    \/ \E a \in AliveSamples : ApplySystemStats(a)
    \/ Kill
    \/ Revive
    \/ SetIdentity
    \/ Tick

SpecAlive == PetInit /\ [][AliveNext]_vars

(* Persistence failures: Save and Load against a disk that can fail         *)

\* Save, lines 239-244: json.MarshalIndent returns an error
SaveMarshalFails ==
    /\ saver.pc \in {"idle", "crashed", "failed"}
    /\ SaveStep([saver EXCEPT !.pc = "failed", !.err = "marshal state",
                              !.data = <<>>, !.before = fs[Path],
                              !.taken = <<Snapshot(pet)>>])
    /\ UNCHANGED fs

\* Save, lines 247-249: os.WriteFile returns an error, before the temp file
\* is created or after a part of it is written
SaveWriteFails ==
    /\ saver.pc \in {"marshalled", "created", "partial"}
    /\ SaveStep([saver EXCEPT !.pc = "failed", !.err = "write tmp state"])
    /\ UNCHANGED fs

\* Save, lines 250-252: os.Rename returns an error
SaveRenameFails ==
    /\ saver.pc = "written"
    /\ SaveStep([saver EXCEPT !.pc = "failed", !.err = "rename state"])
    /\ UNCHANGED fs

\* Load, lines 258-263: os.ReadFile returns an error other than not-exist
LoadReadFails ==
    /\ saver.pc \in {"idle", "crashed", "failed"}
    /\ fs[Path].exists
    /\ loaded' = [state |-> EmptyPetState, isNil |-> TRUE, err |-> "read state",
                  pre |-> saver.saved]
    /\ UNCHANGED <<now, petVars, brainVars, routerVars, snap, fs, saver, exec, storeVars, botVars, monVars, built, sched>>

\* the file found at path when the process starts: none, or one cut short
StartFiles == { Absent, File(SubSeq(MarshalIndent(EmptyPetState), 1, 2), FALSE) }

FailInit ==
    /\ now = MaxTime
    /\ pet \in PersistStores
    /\ lastOp = "none"
    /\ prevAlive = pet.IsAlive
    /\ nOps = 0
    /\ revives = 0
    /\ BrainInit
    /\ RouterInit
    /\ brainSet = TRUE
    /\ snap = <<>>
    /\ \E f \in StartFiles : fs = [q \in Paths |-> IF q = Path THEN f ELSE Absent]
    /\ saver = IdleSaver
    /\ loaded = NotLoaded
    /\ exec = NoRun
    /\ StoreAtRest
    /\ BotAtRest
    /\ MonAtRest
    /\ built = NotBuilt
    /\ sched = NewScheduler

FailNext ==
    \/ SaveMarshal
    \/ SaveCreate
    \/ SaveWrite
    \/ SaveWriteRest
    \/ SaveRename
    \/ SaveMarshalFails
    \/ SaveWriteFails
    \/ SaveRenameFails
    \/ LoadFile
    \/ LoadReadFails

SpecFail == FailInit /\ [][FailNext]_vars

(* /revive handled by several goroutines: the session calls every handler  *)
(* in a goroutine of its own, and the handler reads the store twice.       *)

\* HandleInteraction, lines 46-52 and 139-143: the handler takes its
\* snapshot; a caller who is not an owner is declined at once
ReviveSnapshot(g, isOwner) ==
    /\ gor[g].pc = "idle"
    /\ handled < MaxMsgs
    /\ handled' = handled + 1
    /\ IF declines("revive", isOwner, allowSpectatorPet)
       THEN /\ Respond("revive", isOwner, "ephemeral")
            /\ UNCHANGED gor
       ELSE /\ gor' = [gor EXCEPT ![g] = [IdleGor EXCEPT !.pc = "revive", !.op = "Revive",
                                                         !.copy = Snapshot(pet)]]
            /\ UNCHANGED interaction
    /\ UNCHANGED <<now, petVars, brainVars, brainSet, lastBotReply, sent, snap, fs, saver,
                   loaded, exec, rw, serial, allowSpectatorPet, monVars, built, sched>>

\* HandleInteraction, lines 144-149: the test of the snapshot taken
\* earlier, then Revive on the store as it is now
ReviveCase(g) ==
    /\ gor[g].pc = "revive"
    /\ gor' = [gor EXCEPT ![g] = IdleGor]
    /\ handled' = handled
    /\ Respond("revive", TRUE, "template")
    /\ IF gor[g].copy.IsAlive
       THEN UNCHANGED petVars
       ELSE /\ revives < MaxRevives
            /\ pet' = ReviveOf(pet)
            /\ lastOp' = "Revive"
            /\ prevAlive' = pet.IsAlive
            /\ nOps' = nOps + 1
            /\ revives' = revives + 1
    /\ UNCHANGED <<now, brainVars, brainSet, lastBotReply, sent, snap, fs, saver,
                   loaded, exec, rw, serial, allowSpectatorPet, monVars, built, sched>>

ReviveInit ==
    /\ now = 0
    /\ pet \in {NewPetState("Inky", "octopus"), KillOf(NewPetState("Inky", "octopus"))}
    /\ lastOp = "none"
    /\ prevAlive = TRUE
    /\ nOps = 0
    /\ revives = 0
    /\ BrainInit
    /\ RouterInit
    /\ RestInit
    /\ brainSet = TRUE

ReviveNext ==
    \/ \E g \in Goroutines, isOwner \in BOOLEAN : ReviveSnapshot(g, isOwner)
    \/ \E g \in Goroutines : ReviveCase(g)
    \/ Feed
    \/ Kill
    \/ Tick

SpecRevive == ReviveInit /\ [][ReviveNext]_vars

(* The proactive scheduler: Run calls check on every tick of its ticker,   *)
(* one call after the other, while the store is used by the other parts.   *)

\* bound on the number of proactive messages sent
MaxSent == 3

\* the scheduler is followed for MaxTime days
Horizon == 24 * MaxTime

\* the clock moves on between two checks, by some hours or by a day
Steps == {8, 24}

Advance(d) ==
    /\ now + d <= Horizon
    /\ now' = now + d
    /\ UNCHANGED <<petVars, brainVars, routerVars, restVars>>

\* check, lines 76-88: the onboarding test, the snapshot and the presence;
\* on a store that is not onboarded the check returns at once
CheckSnapshot ==
    /\ sched.pc = "idle"
    /\ LET x == Snapshot(pet)
       IN  IF ~IsOnboarded(pet) THEN UNCHANGED sched
           ELSE sched' = [sched EXCEPT !.pc = "checking", !.snap = x, !.lastMood = x.Mood]
    /\ UNCHANGED <<now, petVars, brainVars, routerVars,
                   snap, fs, saver, loaded, exec, storeVars, botVars, monVars, built>>

\* check, lines 90-141: at most one message, then the check returns
CheckSend ==
    /\ sched.pc = "checking"
    /\ Len(sent) < MaxSent
    /\ LET r == checkOf(sched, sched.snap)
       IN  /\ sched' = [r.s EXCEPT !.pc = "idle", !.snap = <<>>]
           /\ sent' = IF r.kind = "" THEN sent
                      ELSE Append(sent, [kind |-> r.kind, at |-> now, m |-> r.m])
    /\ UNCHANGED <<now, petVars, brainVars, lastBotReply, brainSet, handled,
                   snap, fs, saver, loaded, exec, storeVars, botVars, monVars, built>>

\* a store made now, one made 30 days ago, one whose last readings
\* had the CPU over 90 percent, and one not onboarded
SchedStores ==
    { NewPetState("Inky", "octopus"),
      [NewPetState("Inky", "octopus") EXCEPT !.BornAt = 0 - 30 * 24],
      ApplySystemStatsOf(NewPetState("Inky", "octopus"), 96, 50, 10, 40, 1),
      EmptyPetState }

SchedInit ==
    /\ now = 0
    /\ pet \in SchedStores
    /\ lastOp = "none"
    /\ prevAlive = pet.IsAlive
    /\ nOps = 0
    /\ revives = 0
    /\ BrainInit
    /\ RouterInit
    /\ brainSet = TRUE
    /\ snap = <<>>
    /\ fs = [q \in Paths |-> Absent]
    /\ saver = IdleSaver
    /\ loaded = NotLoaded
    /\ exec = NoRun
    /\ StoreAtRest
    /\ BotAtRest
    /\ MonAtRest
    /\ built = NotBuilt
    /\ sched \in {NewScheduler, [NewScheduler EXCEPT !.channelID = ""]}

SchedNext ==
    \/ CheckSnapshot
    \/ CheckSend
    \/ \E d \in Steps : Advance(d)
    \/ Kill
    \/ SetIdentity

SpecSched == SchedInit /\ [][SchedNext]_vars

-----------------------------------------------------------------------------
(* Properties *)

\* the ids of a sequence of tool calls or tool results
IDs(seq) == [k \in 1..Len(seq) |-> seq[k].ID]

\* all tool calls the provider asked for in this call, in order
RECURSIVE CallsUpTo(_, _)
CallsUpTo(h, n) ==
    IF n = 0 THEN <<>> ELSE CallsUpTo(h, n - 1) \o h[n].ToolCalls

\* all tool results produced in this call so far, in order
RECURSIVE ResultsUpTo(_, _)
ResultsUpTo(h, n) ==
    IF n = 0 THEN <<>> ELSE ResultsUpTo(h, n - 1) \o h[n].ToolResults

AllCalls(a) == CallsUpTo(a.history, Len(a.history))

AllResults(a) == ResultsUpTo(a.history, Len(a.history)) \o a.results

AssistantTurns(a) == {k \in 1..Len(a.history) : a.history[k].Role = "assistant"}

\* every answer of the provider in this call was done=false with one tool call
OnlyOneCallAnswers(a) ==
    /\ a.sends = Cardinality(AssistantTurns(a))
    /\ \A k \in AssistantTurns(a) : Len(a.history[k].ToolCalls) = 1

\* C1: an Ask call never makes more than MaxTools+1 provider Sends; an
\* admitted call whose every provider answer was done=false with one tool
\* call has returned only after exactly MaxTools+1 Sends, with the fallback
\* text and a nil error.
C1_SendBound ==
    \A c \in Callers :
        /\ ask[c].sends <= MaxTools + 1
        /\ (ask[c].pc = "returned" /\ ~ask[c].denied /\ OnlyOneCallAnswers(ask[c]))
             => /\ ask[c].sends = MaxTools + 1
                /\ ask[c].ret = [text |-> FallbackText, err |-> "nil"]

C1_Witness ==
    \E c \in Callers :
        /\ ask[c].pc = "returned"
        /\ ~ask[c].denied
        /\ OnlyOneCallAnswers(ask[c])
        /\ ask[c].sends = MaxTools + 1
        /\ ask[c].ret.text = FallbackText

\* the admitted calls in the trailing interval (T - RateDur, T]
AcceptedIn(T) == {k \in 1..Len(accepted) : T - RateDur < accepted[k] /\ accepted[k] <= T}

\* C2: whatever the callers do, and however their admission checks
\* interleave, no trailing interval of length RateDur, (T - RateDur, T],
\* holds more than RateMax admitted calls.
C2_WindowBound == \A T \in 0..now : Cardinality(AcceptedIn(T)) <= RateMax

C2_Witness ==
    \E c1, c2 \in Callers :
        /\ c1 # c2
        /\ ask[c1].denied
        /\ ask[c2].pc = "send"
        /\ Cardinality(AcceptedIn(now)) = RateMax
        /\ Len(accepted) > RateMax

\* the commands of the tool calls the provider may ask for
Commands == { tc.Input.command : tc \in {TcLs, TcRm, TcUnknown, TcBad, TcCurl, TcDf} }

\* those that hold, compared case-insensitively, a deny-list substring
DenyListedCommands ==
    { command \in Commands :
        \E k \in 1..Len(blockedPatterns) :
            Contains(ToLower(command), ToLower(blockedPatterns[k])) }

DenyListed(command) == command \in DenyListedCommands

IsRunShell(call) == call.Name = "run_shell" /\ call.Input.valid

\* C3: every Executor.Run on a command that holds a deny-list substring,
\* compared case-insensitively, returned an error and empty output and
\* created no subprocess.
C3_BlockedNeverSpawns ==
    \A c \in Callers :
        \A j \in 1..Len(ask[c].execLog) :
            LET e == ask[c].execLog[j]
                res == AllResults(ask[c])[j]
            IN  (IsRunShell(e.call) /\ DenyListed(e.call.Input.command))
                  => /\ ~e.spawned
                     /\ res.IsError
                     /\ res.Content.err.kind = "blocked command pattern"
                     /\ res.Content.output = <<>>

C3_Witness ==
    \E c \in Callers :
        \E j \in 1..Len(ask[c].execLog) :
            /\ ask[c].execLog[j].call = TcRm
            /\ AllResults(ask[c])[j].IsError
            /\ ask[c].spawns = 0

\* C4: an Ask call the router made for an @mention of a non-owner or for
\* the message of another bot never invokes Executor.Run.
C4_OnlyOwnerRuns ==
    \A c \in Callers :
        ask[c].origin \in {"spectator", "pet"} => ask[c].runs = 0

\* C5: hunger, happiness, energy, cleanliness and bond are within [0,100]
\* after every call of a store mutator.
C5_VitalsInRange ==
    /\ 0 <= pet.Hunger /\ pet.Hunger <= F(100)
    /\ 0 <= pet.Happiness /\ pet.Happiness <= F(100)
    /\ 0 <= pet.Energy /\ pet.Energy <= F(100)
    /\ 0 <= pet.Cleanliness /\ pet.Cleanliness <= F(100)
    /\ 0 <= pet.Bond /\ pet.Bond <= F(100)

C5_Witness ==
    /\ lastOp = "ApplySystemStats"
    /\ pet.CPUPercent = 150
    /\ pet.DiskPercent < 0
    /\ pet.Hunger = F(100)
    /\ pet.Cleanliness = F(100)

\* C6: once the provider's Send has returned an error, the call has
\* returned an empty text and the wrapped error, and nothing of the call
\* changes afterwards: no retry, no further Send, no tool execution.
C6_SendErrorAborts ==
    /\ [](\A c \in Callers :
            ask[c].sendFailed
              => /\ ask[c].pc = "returned"
                 /\ ask[c].ret = [text |-> <<>>, err |-> "AI API error"])
    /\ [][\A c \in Callers :
            (ask[c].sendFailed /\ ask'[c].sendFailed) => ask'[c] = ask[c]]_vars

C6_Witness ==
    \E c \in Callers :
        /\ ask[c].sendFailed
        /\ ask[c].sends = 2
        /\ Len(ask[c].execLog) > 0
        /\ ask[c].pc = "returned"

\* what went wrong with the tool invocation e, from the call and the process
Blocked(e) == IsRunShell(e.call) /\ DenyListed(e.call.Input.command)

ExitedNonZero(e) == e.spawned /\ ~e.proc.timedOut /\ e.proc.exit # 0

UnknownTool(e) == e.call.Name # "run_shell"

Malformed(e) == e.call.Name = "run_shell" /\ ~e.call.Input.valid

\* out, or a prefix of out followed by the truncation marker
CapturedFrom(output, out) ==
    \/ output = out
    \/ \E n \in 0..Len(out) : output = SubSeq(out, 1, n) \o TruncationMarker

\* C7: a tool invocation that is blocked, exits non-zero, names an unknown
\* tool or has malformed arguments yields a ToolResult with isError=true
\* whose content holds the error and the captured (possibly truncated)
\* output; it never makes Ask return: the only error Ask returns is the
\* provider's, and after the results turn is appended the loop goes on with
\* its next round (the next Send while the budget lasts).
C7_ToolFailureGoesOn ==
    /\ [](\A c \in Callers :
            /\ \A j \in 1..Len(ask[c].execLog) :
                 LET e == ask[c].execLog[j]
                     res == AllResults(ask[c])[j]
                 IN  /\ Blocked(e) => /\ res.IsError
                                      /\ res.Content.err.kind = "blocked command pattern"
                     /\ ExitedNonZero(e) => /\ res.IsError
                                            /\ res.Content.err.kind = "command failed"
                                            /\ CapturedFrom(res.Content.output, e.proc.out)
                     /\ UnknownTool(e) => /\ res.IsError
                                          /\ res.Content.err.kind = "unknown tool"
                     /\ Malformed(e) => /\ res.IsError
                                        /\ res.Content.err.kind = "json"
            /\ (ask[c].pc = "returned" /\ ask[c].ret.err # "nil") => ask[c].sendFailed)
    /\ [][\A c \in Callers :
            /\ Len(ask'[c].execLog) > Len(ask[c].execLog)
                 => (ask'[c].pc = "tools" /\ ask'[c].ret = ask[c].ret)
            /\ (ask[c].pc = "tools" /\ ask'[c].pc # "tools")
                 => /\ Len(ask'[c].history) = Len(ask[c].history) + 1
                    /\ ask[c].i < MaxTools => ask'[c].pc = "send"]_vars

C7_Witness ==
    \E c \in Callers :
        /\ ask[c].pc = "send"
        /\ ask[c].sends = 1
        /\ \E j \in 1..Len(ask[c].execLog) : Blocked(ask[c].execLog[j])
        /\ \E j \in 1..Len(ask[c].execLog) : ExitedNonZero(ask[c].execLog[j])
        /\ \E j \in 1..Len(ask[c].execLog) : UnknownTool(ask[c].execLog[j])
        /\ \E j \in 1..Len(ask[c].execLog) : Malformed(ask[c].execLog[j])

IsPrefix(p, q) == Len(p) <= Len(q) /\ SubSeq(q, 1, Len(p)) = p

\* C8: the tool calls of every not-done answer are executed in the order
\* received, and before the next Send exactly one turn is appended, which
\* holds one ToolResult per ToolCall, in the same order and with the id of
\* its call.
C8_ResultsInOrder ==
    \A c \in Callers :
        LET a == ask[c]
            h == a.history
        IN  /\ \A k \in AssistantTurns(a) :
                 IF k < Len(h)
                 THEN /\ h[k + 1].Role = "user"
                      /\ h[k + 1].ToolCalls = <<>>
                      /\ IDs(h[k + 1].ToolResults) = IDs(h[k].ToolCalls)
                 ELSE /\ a.pc = "tools"
                      /\ IsPrefix(IDs(a.results), IDs(h[k].ToolCalls))
            /\ a.pc = "send" => Len(h) = 1 + 2 * a.sends
            /\ IDs([j \in 1..Len(a.execLog) |-> a.execLog[j].call]) = IDs(AllResults(a))
            /\ IsPrefix(IDs(AllResults(a)), IDs(AllCalls(a)))

C8_Witness ==
    \E c \in Callers :
        /\ ask[c].pc = "send"
        /\ ask[c].sends = 1
        /\ Len(ask[c].history) = 3
        /\ Len(ask[c].history[2].ToolCalls) = 4
        /\ IDs(ask[c].history[3].ToolResults) = IDs(ask[c].history[2].ToolCalls)
        /\ ask[c].spawns = 1

\* C9: a call the rate limiter denied has returned the "too busy" text with
\* a nil error, and it took no snapshot, made no Send and ran no tool.
C9_DeniedDoesNothing ==
    \A c \in Callers :
        ask[c].denied
          => /\ ask[c].pc = "returned"
             /\ ask[c].ret = [text |-> TooBusyText, err |-> "nil"]
             /\ ask[c].snaps = 0
             /\ ask[c].sends = 0
             /\ ask[c].runs = 0
             /\ ask[c].execLog = <<>>
             /\ ask[c].history = <<>>

C9_Witness ==
    \E c \in Callers :
        /\ ask[c].denied
        /\ Len(window) = RateMax
        /\ ask[c].pc = "returned"

\* hunger >= 95, mem >= 95 and energy <= 5 hold together
Triple(s) == s.Hunger >= F(95) /\ s.MemPercent >= 95 /\ s.Energy <= F(5)

\* C10: ApplySystemStats makes a living pet not-alive exactly when hunger >=
\* 95, mem >= 95 and energy <= 5 hold together after the call's mapping; a
\* not-alive pet stays not-alive through ApplySystemStats, Feed, Play, Pet
\* and TouchInteraction.
C10_DeathTrigger ==
    [][/\ (\E a \in StatInputs : ApplySystemStats(a))
            => (pet'.IsAlive <=> (pet.IsAlive /\ ~Triple(pet')))
       /\ (/\ ~pet.IsAlive
           /\ \/ Feed
              \/ Play
              \/ Pet
              \/ TouchInteraction
              \/ \E a \in StatInputs : ApplySystemStats(a))
            => ~pet'.IsAlive]_vars

C10_Witness ==
    /\ lastOp = "ApplySystemStats"
    /\ prevAlive
    /\ ~pet.IsAlive
    /\ Triple(pet)


\* C11: the mood of a snapshot is fixed by a first-match cascade: dead when
\* not alive; else sick when mem > 90; else anxious when temp > 70; else
\* sleepy when energy < 20; else hungry when hunger > 70; else bored when
\* happiness < 30; else happy when happiness > 70, hunger < 40 and
\* energy > 40; else content.  Snapshots with equal fields have equal moods,
\* and hunger 80, happiness 20, energy 50, alive, mem 50, temp 50 is hungry.
C11_MoodCascade ==
    /\ \A k \in 1..Len(snap) :
         LET x == snap[k]
             dead == ~x.IsAlive
             sick == ~dead /\ x.MemPercent > 90
             anxious == ~dead /\ ~sick /\ x.TempC > 70
             sleepy == ~dead /\ ~sick /\ ~anxious /\ x.Energy < F(20)
             hungry == ~dead /\ ~sick /\ ~anxious /\ ~sleepy /\ x.Hunger > F(70)
             bored == ~dead /\ ~sick /\ ~anxious /\ ~sleepy /\ ~hungry
                      /\ x.Happiness < F(30)
             happy == ~dead /\ ~sick /\ ~anxious /\ ~sleepy /\ ~hungry /\ ~bored
                      /\ x.Happiness > F(70) /\ x.Hunger < F(40) /\ x.Energy > F(40)
         IN  /\ (x.Mood = "dead") <=> dead
             /\ (x.Mood = "sick") <=> sick
             /\ (x.Mood = "anxious") <=> anxious
             /\ (x.Mood = "sleepy") <=> sleepy
             /\ (x.Mood = "hungry") <=> hungry
             /\ (x.Mood = "bored") <=> bored
             /\ (x.Mood = "happy") <=> happy
             /\ (x.Mood = "content") <=> ~(dead \/ sick \/ anxious \/ sleepy
                                            \/ hungry \/ bored \/ happy)
             /\ (/\ x.Hunger = F(80) /\ x.Happiness = F(20) /\ x.Energy = F(50)
                 /\ x.IsAlive /\ x.MemPercent = 50 /\ x.TempC = 50)
                  => x.Mood = "hungry"
    /\ \A j, k \in 1..Len(snap) :
         (\A f \in StoredFields : snap[j][f] = snap[k][f])
            => snap[j].Mood = snap[k].Mood

\* a store that is both starving and exhausted has been snapshotted twice
C11_Witness ==
    /\ Len(snap) = 2
    /\ snap[1].IsAlive /\ snap[1].MemPercent = 90 /\ snap[1].TempC = 70
    /\ snap[1].Hunger = F(71) /\ snap[1].Energy = F(19)
    /\ snap[1].Mood = "sleepy"
    /\ snap[2].Mood = "sleepy"

\* C12: a store loaded from the file a Save wrote has a Snapshot equal, in
\* every stored field (name, species, vitals, timestamps, alive flag, host
\* metrics), to the snapshot of the store at that Save; mood and age are
\* derived again and are not compared.
C12_SaveLoadRoundTrip ==
    (loaded.err = "nil" /\ loaded.pre # <<>>)
        => /\ ~loaded.isNil
           /\ \A f \in StoredFields : Snapshot(loaded.state)[f] = loaded.pre[1][f]

\* a store with a fractional bond, a negative reading and a timestamp after
\* the start was saved and loaded again
C12_Witness ==
    /\ loaded.err = "nil"
    /\ loaded.pre # <<>>
    /\ loaded.state.Bond % Scale # 0
    /\ loaded.state.DiskPercent < 0
    /\ loaded.state.LastFed > 0
    /\ loaded.state.LastFed # loaded.state.BornAt

\* C13: at every point of a Save, and after a crash between any two of its
\* steps, the file at path is either what it was before the Save (a
\* complete record, or no file) or the complete new record; it is never a
\* partial record, so Load never fails to parse it.
C13_SaveAtomic ==
    /\ fs[Path].exists => fs[Path].closed
    /\ saver.pc # "idle" => fs[Path] \in {saver.before, File(saver.data, TRUE)}
    /\ loaded.err \in {"none", "nil"}

\* the process crashed while the temp file was half written, over an
\* earlier complete record that differs from the new one
C13_Witness ==
    /\ saver.pc = "crashed"
    /\ fs[tmpPath(Path)].exists
    /\ ~fs[tmpPath(Path)].closed
    /\ fs[tmpPath(Path)].members # <<>>
    /\ fs[Path].exists
    /\ fs[Path] = saver.before
    /\ fs[Path].members # saver.data

\* C14: when the command printed more than maxOutput bytes, Run returns
\* exactly the first maxOutput bytes followed by the truncation marker,
\* whether the command succeeded, failed or timed out; output of at most
\* maxOutput bytes is returned unchanged, with no marker.
C14_OutputCapped ==
    (exec.returned /\ exec.spawned)
        => LET out == exec.proc.out
           IN  /\ Len(out) > MaxOutput
                    => /\ Len(exec.output) = MaxOutput + Len(TruncationMarker)
                       /\ \A k \in 1..MaxOutput : exec.output[k] = out[k]
                       /\ \A k \in 1..Len(TruncationMarker) :
                             exec.output[MaxOutput + k] = TruncationMarker[k]
               /\ Len(out) <= MaxOutput => exec.output = out

\* a command that printed one byte over the cap and then timed out
C14_Witness ==
    /\ exec.returned
    /\ exec.spawned
    /\ exec.proc.timedOut
    /\ Len(exec.proc.out) = MaxOutput + 1
    /\ Len(exec.output) > MaxOutput

TimedOut(e) == e.spawned /\ e.proc.timedOut

\* C15: a command that ran past the deadline yields the timeout error, even
\* when it also has a non-zero exit status, together with the output
\* captured so far; Ask records it as an error-flagged ToolResult carrying
\* that output, stays in its loop and returns nothing at that step.
C15_TimeoutIsToolError ==
    /\ [](\A c \in Callers :
            \A j \in 1..Len(ask[c].execLog) :
                LET e == ask[c].execLog[j]
                    res == AllResults(ask[c])[j]
                IN  TimedOut(e) => /\ res.IsError
                                   /\ res.ID = e.call.ID
                                   /\ res.Content.err.kind = "command timed out"
                                   /\ CapturedFrom(res.Content.output, e.proc.out))
    /\ [][\A c \in Callers :
            (/\ Len(ask'[c].execLog) = Len(ask[c].execLog) + 1
             /\ TimedOut(ask'[c].execLog[Len(ask'[c].execLog)]))
                => /\ ask'[c].pc = "tools"
                   /\ ask'[c].ret = ask[c].ret
                   /\ Len(ask'[c].results) = Len(ask[c].results) + 1]_vars

\* a command was killed at the deadline after printing one byte, and the
\* loop went on to its next Send
C15_Witness ==
    \E c \in Callers :
        /\ ask[c].pc = "send"
        /\ ask[c].sends = 1
        /\ \E j \in 1..Len(ask[c].execLog) :
              /\ TimedOut(ask[c].execLog[j])
              /\ ask[c].execLog[j].proc.exit # 0
              /\ ask[c].execLog[j].proc.out # <<>>

\* the provider round-trips of a call that were completed
RoundTrips(a) == a.sends - (IF a.sendFailed THEN 1 ELSE 0)

WriterPcs == {"locked", "half", "written"}

ReaderPcs == {"rlocked", "copying", "copied"}

\* the stored fields of x are those of the store after some prefix of the
\* mutator calls, in the order the calls took the lock
AfterSomePrefix(x) ==
    \E k \in 1..Len(serial) : \A f \in StoredFields : x[f] = serial[k][f]

\* C17: no two mutators are in their critical section at once, no Snapshot
\* copies while a mutator is in its critical section, every Snapshot is the
\* store after a prefix of the serial order of the mutator calls, and mood
\* and age are derived from the copy after the read lock was released.
C17_StoreLockDiscipline ==
    /\ Cardinality({g \in Goroutines : gor[g].pc \in WriterPcs}) <= 1
    /\ \A g \in Goroutines :
          /\ gor[g].pc \in WriterPcs => (rw.writer = g /\ rw.readers = {})
          /\ gor[g].pc \in ReaderPcs =>
                (g \in rw.readers /\ \A h \in Goroutines : gor[h].pc \notin WriterPcs)
          /\ gor[g].pc \in {"copied", "unlocked"} => AfterSomePrefix(gor[g].copy)
          /\ gor[g].pc = "unlocked" => (g \notin rw.readers /\ rw.writer # g)
    /\ \A k \in 1..Len(snap) :
          /\ AfterSomePrefix(snap[k])
          /\ snap[k].Mood = DetermineMood(snap[k])
          /\ snap[k].AgeDays = HoursSince(snap[k].BornAt)

\* a Snapshot returned the store as it was after the first of two mutator
\* calls while the other goroutine is part-way through the third
C17_Witness ==
    \E g, h \in Goroutines :
        /\ gor[g].pc = "idle"
        /\ gor[h].pc = "half"
        /\ Len(serial) = 3
        /\ Len(snap) = 1
        /\ \A f \in StoredFields : snap[1][f] = serial[2][f]
        /\ serial[2] # serial[1] /\ serial[3] # serial[2]
        /\ pet \notin {serial[k] : k \in 1..Len(serial)}

\* the history Ask builds from its own user message and the provider
\* responses rs it has received: the user turn, then for every response
\* that asked for tools the assistant turn and the turn with the results
OwnTurns(a) ==
    /\ Len(a.history) >= 1
    /\ a.history[1] = Message("user", a.userMessage, <<>>, <<>>)
    /\ \A j \in 2..Len(a.history) :
          IF j % 2 = 0
          THEN /\ j \div 2 <= Len(a.received)
               /\ a.history[j] = Message("assistant", a.received[j \div 2].Text,
                                         a.received[j \div 2].ToolCalls, <<>>)
          ELSE /\ a.history[j].Role = "user"
               /\ a.history[j].Text = <<>>
               /\ IDs(a.history[j].ToolResults) = IDs(a.history[j - 1].ToolCalls)

\* C18: every running call has its own history and loop counter: the
\* history is the call's own user turn followed by the turns of the
\* provider responses that call received, the counter is the number of
\* tool rounds that call completed, and a step of one call changes no
\* other call's locals; the calls share only the rate limiter.
C18_CallsIndependent ==
    /\ [](\A c \in Callers :
            ask[c].pc \in {"send", "tools", "returned"} /\ ~ask[c].denied
               => /\ ask[c].userMessage = userMessageOf(c)
                  /\ OwnTurns(ask[c])
                  /\ Len(ask[c].history) =
                        1 + 2 * ask[c].i + (IF ask[c].pc = "tools" THEN 1 ELSE 0)
                  /\ ask[c].sends = Len(ask[c].received)
                                    + (IF ask[c].sendFailed THEN 1 ELSE 0))
    /\ [][\A c, d \in Callers :
            (c # d /\ ask'[c] # ask[c]) => ask'[d] = ask[d]]_vars

\* two calls are in their tool loops at once, each with one completed
\* round of its own
C18_Witness ==
    /\ \A c \in Callers :
          /\ ask[c].pc = "send"
          /\ ask[c].i = 1
          /\ Len(ask[c].history) = 3
          /\ Len(ask[c].history[3].ToolResults) = 1
          /\ ask[c].history[1].Text = userMessageOf(c)
    /\ ask[1].history[1] # ask[2].history[1]

\* Ask was called: the call record left its idle state
AskCalled(a) == a.pc # "idle" \/ a # IdleCall

\* the replies that come from a template
TemplateKinds == {"greet", "affection", "feeding", "idle behavior"}

\* C19: brain.New returns nil when neither API key is set, and with no
\* Brain (nil) Ask is never called: no call of any caller ever
\* leaves its idle state, the slash commands /feed, /heal and /play answer
\* from a template and every message the bot posts is a template.
C19_NilBrainNeverAsked ==
    /\ \A cfg \in Configs : (~cfg.ClaudeAPIKey /\ ~cfg.GeminiAPIKey) => ~New(cfg)
    /\ ~brainSet =>
           /\ \A c \in Callers : ~AskCalled(ask[c])
           /\ accepted = <<>>
           /\ interaction.reply \in {"none", "template", "ephemeral"}
           /\ \A k \in 1..Len(sent) : sent[k].kind \in TemplateKinds

\* without a Brain the owner's /feed fed the pet and was answered from the
\* template, after a mention had been answered with the idle behaviour
C19_Witness ==
    /\ ~brainSet
    /\ interaction = [cmd |-> "feed", owner |-> TRUE, reply |-> "template", seq |-> 2]
    /\ lastOp = "Feed"
    /\ Len(sent) = 1
    /\ sent[1].kind = "idle behavior"

\* the step handles the slash command cmd of a user who is or is not an owner
Handles(cmd, isOwner) ==
    /\ handled' = handled + 1
    /\ interaction'.seq = handled'
    /\ interaction'.cmd = cmd
    /\ interaction'.owner = isOwner

\* the step calls no mutator of the store and does not call Ask
NoMutatorNoAsk == pet' = pet /\ nOps' = nOps /\ lastOp' = lastOp /\ ask' = ask

\* C20: /feed, /heal, /play and /revive of a user who is not an owner are
\* declined with an ephemeral message, call no mutator and do not call Ask;
\* /pet of a user who is not an owner calls Pet exactly when
\* allowSpectatorPet is set; /status, /mood and /help, whoever issues them,
\* call no mutator and do not call Ask.
C20_SlashGating ==
    [][\A cmd \in SlashCommands, isOwner \in BOOLEAN :
          Handles(cmd, isOwner) =>
             /\ (cmd \in {"feed", "heal", "play", "revive"} /\ ~isOwner)
                   => (NoMutatorNoAsk /\ interaction'.reply = "ephemeral")
             /\ (cmd = "pet" /\ ~isOwner)
                   => IF allowSpectatorPet
                      THEN pet' = PetOf(pet) /\ nOps' = nOps + 1 /\ lastOp' = "Pet"
                      ELSE NoMutatorNoAsk /\ interaction'.reply = "ephemeral"
             /\ cmd \in {"status", "mood", "help"}
                   => (NoMutatorNoAsk /\ interaction'.reply = "template")]_vars

\* a spectator's /revive of a dead pet was declined and the pet is still
\* dead, after a spectator's /pet had been applied
C20_Witness ==
    /\ interaction = [cmd |-> "revive", owner |-> FALSE, reply |-> "ephemeral", seq |-> 2]
    /\ ~pet.IsAlive
    /\ allowSpectatorPet
    /\ lastOp = "Pet"
    /\ handled = 2

\* C21: no slash command and no channel message of a user who is not an
\* owner ever causes PetState.Feed to be called.
C21_SpectatorNeverFeeds == [][lastOp' = "Feed" => nOps' = nOps]_vars

\* C22: any two replies to messages of other bots are at least botCooldown
\* minutes apart.
C22_PetReplyCooldown ==
    \A j, k \in 1..Len(sent) :
        (j < k /\ sent[j].kind = "pet reply" /\ sent[k].kind = "pet reply")
           => (sent[k].at - sent[j].at) * 60 >= botCooldown

\* C23: Feed, Play, Pet and TouchInteraction apply exactly their documented
\* deltas, each kept within 0..100: Feed takes 30 from hunger, adds 5 to
\* happiness and sets lastFed; Play adds 20 to happiness, takes 10 from
\* energy and adds 5 to hunger; Pet adds 10 to happiness; TouchInteraction
\* changes no vital but bond. Each sets lastInteraction to the call time,
\* bumps bond once and leaves every other field as it was.
C23_MutatorDeltas ==
    [][ LET within(v) == IF v < 0 THEN 0 ELSE IF v > 100 * Scale THEN 100 * Scale ELSE v
            same(fields) == \A f \in StoredFields \ fields : pet'[f] = pet[f]
            common == /\ pet'.LastInteraction = now
                      /\ pet'.Bond = bumpBond(pet).Bond
        IN  nOps' = nOps + 1 =>
              /\ lastOp' = "Feed" =>
                    /\ pet'.Hunger = within(pet.Hunger - 30 * Scale)
                    /\ pet'.Happiness = within(pet.Happiness + 5 * Scale)
                    /\ pet'.LastFed = now
                    /\ common
                    /\ same({"Hunger", "Happiness", "LastFed", "LastInteraction", "Bond"})
              /\ lastOp' = "Play" =>
                    /\ pet'.Happiness = within(pet.Happiness + 20 * Scale)
                    /\ pet'.Energy = within(pet.Energy - 10 * Scale)
                    /\ pet'.Hunger = within(pet.Hunger + 5 * Scale)
                    /\ common
                    /\ same({"Happiness", "Energy", "Hunger", "LastInteraction", "Bond"})
              /\ lastOp' = "Pet" =>
                    /\ pet'.Happiness = within(pet.Happiness + 10 * Scale)
                    /\ common
                    /\ same({"Happiness", "LastInteraction", "Bond"})
              /\ lastOp' = "TouchInteraction" =>
                    /\ common
                    /\ same({"LastInteraction", "Bond"})
      ]_vars

\* Feed from hunger 50 (set by a CPU reading of 50) has left hunger 20
C23_Witness ==
    /\ lastOp = "Feed"
    /\ nOps = 2
    /\ pet.CPUPercent = 50
    /\ pet.Hunger = F(20)
    /\ pet.LastFed = now

C25_KillRevive ==
    [][ nOps' = nOps + 1 =>
          /\ lastOp' = "Kill" =>
                /\ ~pet'.IsAlive
                /\ \A f \in StoredFields \ {"IsAlive"} : pet'[f] = pet[f]
          /\ lastOp' = "Revive" =>
                /\ pet'.IsAlive
                /\ pet'.Hunger = 20 * Scale
                /\ pet'.Happiness = 50 * Scale
                /\ pet'.Energy = 50 * Scale
                /\ pet'.Cleanliness = 50 * Scale
                /\ 2 * pet'.Bond = pet.Bond
      ]_vars

\* a pet with bond 12 was killed and revived with bond 6
C25_Witness ==
    /\ lastOp = "Revive"
    /\ ~prevAlive
    /\ pet.IsAlive
    /\ pet.Bond = F(6)
    /\ pet.Happiness = F(50)

\* C26: over a period with no interaction the happiness and the bond lost
\* depend only on the hours elapsed since the last interaction, not on how
\* many times ApplySystemStats was called: after any call the two values are
\* those a single call at that time would have left.
C26_DecayByElapsedTime ==
    [][ (nOps' = nOps + 1 /\ lastOp' = "ApplySystemStats") =>
          LET single == ApplySystemStatsOf(DecayStart, 50, 50, 10, 40, 1)
          IN  /\ pet'.Happiness = single.Happiness
              /\ pet'.Bond = single.Bond
      ]_vars

\* C27: after ApplySystemStats(cpu, mem, disk, tempC, uptimeDays) hunger is
\* cpu, cleanliness is 100 - disk and energy is 100 - 14 * uptimeDays, each
\* kept within 0..100, and the five stored host metrics are the arguments,
\* whatever the store held before the call.
C27_StatsOverwrite ==
    [][ (nOps' = nOps + 1 /\ lastOp' = "ApplySystemStats") =>
          LET within(v) == IF v < 0 THEN 0 ELSE IF v > 100 * Scale THEN 100 * Scale ELSE v
          IN  \E a \in StatInputs :
                /\ pet'.CPUPercent = a[1]
                /\ pet'.MemPercent = a[2]
                /\ pet'.DiskPercent = a[3]
                /\ pet'.TempC = a[4]
                /\ pet'.UptimeDays = a[5]
                /\ pet'.Hunger = within(a[1] * Scale)
                /\ pet'.Cleanliness = within((100 - a[3]) * Scale)
                /\ pet'.Energy = within(100 * Scale - (14 * a[5] * Scale) \div 10)
      ]_vars

\* Play had left energy 70 and hunger 25; the sample that followed set them
\* to 98.6 and 50
C27_Witness ==
    /\ lastOp = "ApplySystemStats"
    /\ nOps = 2
    /\ pet.Happiness = F(100)
    /\ pet.Bond = F(12)
    /\ pet.Hunger = F(50)
    /\ pet.Energy = F(100) - (14 * Scale) \div 10

\* C28: within one Ask call the tool-use loop runs at most maxToolIterations
\* times: at most maxToolIterations provider Sends are made before the
\* fallback text is returned.
C28_LoopWithinBudget ==
    \A c \in Callers : ask[c].sends <= MaxTools

\* the pet section of a prompt p printed from the store s as it is now
PetSectionFrom(p, s) ==
    /\ p.Name = s.Name
    /\ p.SpeciesID = s.SpeciesID
    /\ p.Mood = DetermineMood(s)
    /\ p.Hunger = RoundDiv(s.Hunger, Scale)
    /\ p.Happiness = RoundDiv(s.Happiness, Scale)
    /\ p.Energy = RoundDiv(s.Energy, Scale)
    /\ p.Cleanliness = RoundDiv(s.Cleanliness, Scale)
    /\ p.Bond = RoundDiv(s.Bond, Scale)
    /\ p.AgeDays = RoundDiv((now - s.BornAt) * 10, 24)
    /\ p.IsAlive = s.IsAlive

\* the host section of a prompt p printed from the five metrics m
HostSectionFrom(p, m) ==
    /\ p.CPUPercent = m[1]
    /\ p.MemPercent = m[2]
    /\ p.DiskPercent = m[3]
    /\ p.TempC = m[4]
    /\ p.UptimeDays = m[5]

\* the call of caller c leaves the step that builds its prompt
BuildsPrompt(c) == ask[c].pc = "prompt" /\ ask'[c].pc # "prompt"

\* every admitted call has built its prompt exactly once, and no other call has
BuiltOncePerAdmittedCall ==
    \A c \in Callers :
        /\ ask[c].pc \in {"send", "tools", "running"} => ask[c].snaps = 1
        /\ (ask[c].pc = "returned" /\ ~ask[c].denied) => ask[c].snaps = 1
        /\ ask[c].denied => ask[c].snaps = 0 /\ ask[c].systemPrompt = <<>>

\* C29 (as stated): on every admitted Ask call the prompt is built anew from
\* one Snapshot taken during that call: the vitals, mood, host metrics, age
\* and alive flag in the prompt all come from that snapshot.
C29_PromptFromOneSnapshot ==
    [][ \A c \in Callers :
          BuildsPrompt(c) =>
              /\ ask'[c].snaps = 1
              /\ PetSectionFrom(ask'[c].systemPrompt[1], pet)
              /\ HostSectionFrom(ask'[c].systemPrompt[1],
                                 <<pet.CPUPercent, pet.MemPercent, pet.DiskPercent,
                                   pet.TempC, pet.UptimeDays>>)
      ]_vars

\* C29 (amended): on every admitted Ask call the prompt is built anew, once:
\* the vitals, mood, age and alive flag come from one Snapshot taken during
\* that call, and the host metrics from the monitor's latest sample
\* (Monitor.Stats()) read during that call.
C29_PromptFromSnapshotAndMonitor ==
    /\ []BuiltOncePerAdmittedCall
    /\ [][ \A c \in Callers :
             BuildsPrompt(c) =>
                 /\ ask'[c].snaps = 1
                 /\ PetSectionFrom(ask'[c].systemPrompt[1], pet)
                 /\ HostSectionFrom(ask'[c].systemPrompt[1], monitor.stats)
         ]_vars

\* the second admitted call has built its prompt while a refresh is under
\* way: hunger 50 is the store's (from the sample before), CPU 96 is the
\* monitor's, and the store still holds CPU 50
C29_Witness ==
    /\ Len(accepted) = 2
    /\ ask[1].pc = "send"
    /\ monitor.refreshing
    /\ ask[1].systemPrompt[1].Hunger = 50
    /\ ask[1].systemPrompt[1].CPUPercent = 96
    /\ pet.CPUPercent = 50

\* C30: with no provider forced, Claude is chosen when its key is set,
\* otherwise Gemini when its key is set, otherwise the Brain is nil; a forced
\* provider is used only if its own key is set, and otherwise the Brain is
\* nil even if the other provider's key is set. (Gemini, once chosen, is the
\* Brain's provider unless its client cannot be created; then the Brain is
\* nil.)
C30_ProviderSelection ==
    built.called =>
        LET cfg == built.cfg
            gemini == IF cfg.geminiOk THEN "gemini" ELSE "nil"
        IN  /\ cfg.Provider = "" =>
                  built.provider = IF cfg.ClaudeAPIKey THEN "claude"
                                   ELSE IF cfg.GeminiAPIKey THEN gemini
                                   ELSE "nil"
            /\ cfg.Provider = "claude" =>
                  built.provider = IF cfg.ClaudeAPIKey THEN "claude" ELSE "nil"
            /\ cfg.Provider = "gemini" =>
                  built.provider = IF cfg.GeminiAPIKey THEN gemini ELSE "nil"
            /\ cfg.Provider \notin {"", "claude", "gemini"} => built.provider = "nil"
            /\ brainSet = (built.provider # "nil")

\* Gemini was forced without its key while Claude's key was set: there is no
\* Brain, and a mention was answered from a template
C30_Witness ==
    /\ built.called
    /\ built.cfg.Provider = "gemini"
    /\ ~built.cfg.GeminiAPIKey
    /\ built.cfg.ClaudeAPIKey
    /\ built.provider = "nil"
    /\ ~brainSet
    /\ Len(sent) > 0

\* turn t carries nothing but tool results
OnlyResults(t) == t.Role = "user" /\ t.Text = <<>> /\ t.ToolCalls = <<>>

\* C32: at every provider Send inside an Ask call the history is the user's
\* text turn followed by k pairs (an assistant turn holding that response's
\* text and tool calls, then a user-role turn holding only tool results, one
\* per tool call), where k is the number of earlier not-done responses of
\* this call; no turn carries both tool calls and tool results, and turns
\* already in the history are never changed or removed while the call runs.
C32_HistoryShape ==
    /\ [](\A c \in Callers :
            /\ ask[c].pc = "send" =>
                  LET h == ask[c].history
                      k == Len(ask[c].received)
                  IN  /\ Len(h) = 1 + 2 * k
                      /\ h[1] = [Role |-> "user", Text |-> ask[c].userMessage,
                                 ToolCalls |-> <<>>, ToolResults |-> <<>>]
                      /\ \A j \in 1..k :
                            /\ ~ask[c].received[j].Done
                            /\ h[2 * j] = [Role |-> "assistant",
                                           Text |-> ask[c].received[j].Text,
                                           ToolCalls |-> ask[c].received[j].ToolCalls,
                                           ToolResults |-> <<>>]
                            /\ OnlyResults(h[2 * j + 1])
                            /\ Len(h[2 * j + 1].ToolResults) = Len(h[2 * j].ToolCalls)
            /\ \A j \in 1..Len(ask[c].history) :
                  ask[c].history[j].ToolCalls = <<>> \/ ask[c].history[j].ToolResults = <<>>)
    /\ [][\A c \in Callers :
            ask[c].pc \notin {"idle", "returned"} =>
                /\ Len(ask'[c].history) >= Len(ask[c].history)
                /\ \A j \in 1..Len(ask[c].history) : ask'[c].history[j] = ask[c].history[j]
         ]_vars

\* a second Send is about to be made with a history of three turns, the last
\* of which holds the two results of the first response's tool calls
C32_Witness ==
    /\ ask[1].pc = "send"
    /\ ask[1].sends = 1
    /\ Len(ask[1].history) = 3
    /\ Len(ask[1].history[3].ToolResults) = 2
    /\ Len(ask[1].history[2].ToolCalls) = 2

\* caller c completes its admission check in this step
ChecksAdmission(c) == ask[c].pc = "rateCS" /\ ask'[c].pc # "rateCS"

NotDone(a) == { j \in 1..Len(a.received) : ~a.received[j].Done }

\* the rounds of tool execution of call a that were completed: the turns of
\* results in its history
Rounds(a) == { j \in 2..Len(a.history) : a.history[j].Role = "user" }

RECURSIVE CallsAsked(_, _)
\* the number of tool calls in the first n responses of call a
CallsAsked(a, n) ==
    IF n = 0 THEN 0 ELSE CallsAsked(a, n - 1) + Len(a.received[n].ToolCalls)

\* C34: in every Ask call the number of tool-execution rounds equals the
\* number of not-done responses received. When Ask exhausts its iteration
\* budget, the tool calls of the final not-done response have been executed
\* before the fallback text is returned, although their results are never
\* sent to the provider.
C34_LastRoundStillRuns ==
    \A c \in Callers :
        (ask[c].pc = "returned" /\ ~ask[c].denied) =>
            /\ Cardinality(Rounds(ask[c])) = Cardinality(NotDone(ask[c]))
            /\ Len(ask[c].execLog) = CallsAsked(ask[c], Len(ask[c].received))
            /\ ask[c].ret = [text |-> FallbackText, err |-> "nil"] =>
                  /\ NotDone(ask[c]) = 1..Len(ask[c].received)
                  /\ ask[c].sends = Len(ask[c].received)
                  /\ Len(ask[c].history) = 1 + 2 * ask[c].sends
                  /\ Len(ask[c].history[Len(ask[c].history)].ToolResults)
                        = Len(ask[c].received[ask[c].sends].ToolCalls)

\* the fallback was returned after two responses that each asked for tools:
\* the rm of the last response was still handed to the executor
C34_Witness ==
    /\ ask[1].pc = "returned"
    /\ ask[1].ret.text = FallbackText
    /\ ask[1].sends = MaxTools + 1
    /\ ask[1].received[ask[1].sends].ToolCalls = <<TcRm, TcUnknown>>
    /\ ask[1].execLog[Len(ask[1].execLog) - 1].call = TcRm

\* the callers whose call was admitted in the window of length RateDur that
\* ends at hour T
AdmittedIn(T) ==
    { c \in Callers : ask[c].admittedAt >= 0 /\ T - ask[c].admittedAt < RateDur
                                            /\ ask[c].admittedAt <= T }

RECURSIVE SendsOf(_)
\* the provider Sends made so far by the calls of the callers in S
SendsOf(S) ==
    IF S = {} THEN 0
    ELSE LET c == CHOOSE x \in S : TRUE
         IN  ask[c].sends + SendsOf(S \ {c})

\* C35: rate-limit slots are consumed per admitted Ask call, not per provider
\* round-trip, and are never refunded: the window changes only in an
\* admission check, an entry leaves it only when it has expired, so an Ask
\* that failed with a provider error occupies its slot for the whole window;
\* and within any trailing window the Sends of the calls admitted in it are
\* at most maxRequests * (maxToolIterations + 1).
C35_SlotsPerCall ==
    /\ [](\A T \in 0..now :
             /\ Cardinality(AdmittedIn(T)) <= RateMax
             /\ SendsOf(AdmittedIn(T)) <= RateMax * (MaxTools + 1))
    /\ [](\A c \in Callers :
             (ask[c].admittedAt >= 0 /\ now - ask[c].admittedAt < RateDur)
                 => \E k \in 1..Len(window) : window[k] = ask[c].admittedAt)
    /\ [][ /\ window' # window => \E c \in Callers : ChecksAdmission(c)
           /\ \A k \in 1..Len(window) :
                 \/ \E j \in 1..Len(window') : window'[j] = window[k]
                 \/ now - window[k] >= RateDur
           /\ \A c \in Callers :
                 (ask[c].pc \in {"send", "tools", "running"} /\ ask'[c].sends # ask[c].sends)
                     => window' = window
       ]_vars

\* the call admitted at hour 0 failed with a provider error after its first
\* Send; an hour later its slot is still taken and the other caller is denied
C35_Witness ==
    /\ now = 1
    /\ ask[1].sendFailed
    /\ ask[1].sends = 1
    /\ ask[1].admittedAt = 0
    /\ window = <<0>>
    /\ ask[2].denied

\* store s with its alive flag set to b
WithAlive(s, b) == [s EXCEPT !.IsAlive = b]

\* C38: the alive flag changes only through ApplySystemStats (alive to
\* not-alive), Kill (to not-alive), Revive and SetIdentity (to alive); Feed,
\* Play, Pet and TouchInteraction leave it unchanged, and they apply their
\* stat and bond changes to a not-alive pet just as to a living one.
C38_AliveFlagFrame ==
    [][ nOps' = nOps + 1 =>
          /\ (pet.IsAlive /\ ~pet'.IsAlive) => lastOp' \in {"ApplySystemStats", "Kill"}
          /\ (~pet.IsAlive /\ pet'.IsAlive) => lastOp' \in {"Revive", "SetIdentity"}
          /\ lastOp' \in {"Feed", "Play", "Pet", "TouchInteraction"} =>
                /\ pet'.IsAlive = pet.IsAlive
                /\ pet' # pet
                /\ lastOp' = "Feed" => WithAlive(pet', TRUE) = FeedOf(WithAlive(pet, TRUE))
                /\ lastOp' = "Play" => WithAlive(pet', TRUE) = PlayOf(WithAlive(pet, TRUE))
                /\ lastOp' = "Pet" => WithAlive(pet', TRUE) = PetOf(WithAlive(pet, TRUE))
                /\ lastOp' = "TouchInteraction"
                      => WithAlive(pet', TRUE) = TouchInteractionOf(WithAlive(pet, TRUE))
      ]_vars

\* a pet that was killed has been played with: it is still not alive, and
\* its happiness, energy, hunger and bond have moved
C38_Witness ==
    /\ lastOp = "Play"
    /\ ~prevAlive
    /\ ~pet.IsAlive
    /\ pet.Energy = F(70)
    /\ pet.Hunger = F(25)
    /\ pet.Bond = F(12)

\* the errors Save and Load wrap
SaveErrors == {"marshal state", "write tmp state", "rename state"}

LoadErrors == {"read state", "unmarshal state"}

\* C39: persistence failures are reported as error values and never as a
\* half-built state. Load returns a new empty (not onboarded) store with no
\* error when the file does not exist, and an error with no store when the
\* file cannot be read or parsed. Save returns an error and leaves the file
\* at path unchanged when marshalling, writing the temp file or renaming
\* fails.
C39_FailuresAreErrors ==
    /\ [](/\ loaded.err \in LoadErrors => loaded.isNil
          /\ loaded.err = "nil" => ~loaded.isNil
          /\ saver.pc = "failed" <=> saver.err \in SaveErrors
          /\ saver.pc = "failed" => fs[Path] = saver.before
          /\ saver.err = "nil" => fs[Path] = File(saver.data, TRUE))
    /\ [][ /\ (loaded' # loaded /\ ~fs[Path].exists) =>
                 /\ loaded'.err = "nil"
                 /\ ~loaded'.isNil
                 /\ loaded'.state = EmptyPetState
                 /\ ~IsOnboarded(loaded'.state)
           /\ (loaded' # loaded /\ fs[Path].exists /\ ~fs[Path].closed) =>
                 loaded'.err \in LoadErrors
           /\ (saver'.pc = "failed" /\ saver.pc # "failed") => fs'[Path] = fs[Path]
       ]_vars

\* the file at path is cut short: Load fails to parse it, and a Save whose
\* rename failed has left it as it was, with the whole temp file beside it
C39_Witness ==
    /\ loaded.err = "unmarshal state"
    /\ loaded.isNil
    /\ saver.pc = "failed"
    /\ saver.err = "rename state"
    /\ fs[Path].exists
    /\ ~fs[Path].closed
    /\ fs[tmpPath(Path)] = File(saver.data, TRUE)

\* C36: Revive is applied at most once per death through /revive. The router
\* calls Revive only when the pet is not alive, so bond is halved exactly
\* once per death and vitals are not reset on a living pet, even when several
\* /revive interactions are handled concurrently.
C36_ReviveOncePerDeath ==
    [][(lastOp' = "Revive" /\ nOps' = nOps + 1) => ~pet.IsAlive]_vars

\* the proactive messages of one kind, as positions in sent
OfKind(k) == { i \in 1..Len(sent) : sent[i].kind = k }

\* any two messages of kind k are more than d minutes apart
Apart(k, d) ==
    \A i, j \in OfKind(k) : i < j => (sent[j].at - sent[i].at) * 60 > d

\* C31: each age milestone (1, 7, 30, 100, 365 days) is announced by the
\* scheduler at most once, only once the pet's age has reached it, and
\* milestones are announced in ascending order.
C31_MilestonesOnceInOrder ==
    /\ \A i \in OfKind("milestone") :
          /\ sent[i].m \in {1, 7, 30, 100, 365}
          /\ sent[i].at - pet.BornAt >= sent[i].m * 24
    /\ \A i, j \in OfKind("milestone") : i < j => sent[i].m < sent[j].m

\* the pet is 30 days old: the first three checks announce 1, 7 and 30 days
C31_Witness ==
    /\ Len(sent) = 3
    /\ \A i \in 1..3 : sent[i].kind = "milestone"
    /\ sent[1].m = 1
    /\ sent[2].m = 7
    /\ sent[3].m = 30
    /\ now - pet.BornAt = 30 * 24

\* C37: every scheduler check sends at most one proactive message, and each
\* kind respects its cooldown: two death notices are more than 24 hours
\* apart, two morning check-ins more than 20 hours apart and only during the
\* configured hour, two distress alerts more than distressCooldown apart, two
\* boredom messages more than the boredom threshold apart; while the pet is
\* not alive (in the snapshot the check works on) nothing but the death
\* notice is sent.
C37_OneMessageAndCooldowns ==
    /\ [](/\ Apart("death", 24 * 60)
          /\ Apart("morning", 20 * 60)
          /\ \A i \in OfKind("morning") : sent[i].at % 24 = sched.morningHour
          /\ Apart("distress", sched.distressCooldown)
          /\ Apart("boredom", sched.boredomMinutes))
    /\ [][ /\ Len(sent') <= Len(sent) + 1
           /\ SubSeq(sent', 1, Len(sent)) = sent
           /\ (sent' # sent /\ ~sched.snap.IsAlive) => sent'[Len(sent')].kind = "death"
       ]_vars

\* a morning check-in at 8, the pet dies, a death notice in the same hour
\* and the next one 32 hours later
C37_Witness ==
    /\ Len(sent) = 3
    /\ sent[1].kind = "morning"
    /\ sent[1].at = 8
    /\ sent[2].kind = "death"
    /\ sent[2].at = 8
    /\ sent[3].kind = "death"
    /\ sent[3].at = 40
    /\ ~pet.IsAlive

=============================================================================
